---- MODULE Spec2Model ----
(***************************************************************************)
(* Games catalog: the spreadsheet-backed record store (SheetsService), the *)
(* credentialed search client (IGDBService), the TTL cache (CacheService)  *)
(* and the CSV export.  Each component has its own specification over its  *)
(* own variables; the other components' variables stay at their initial    *)
(* value.                                                                  *)
(***************************************************************************)
EXTENDS Integers, Sequences, FiniteSets, TLC

VARIABLES
    sheet,        \* the remote grid of sheet "Jogos": rows 1..Len, row 1 is the header
    last,         \* the last completed SheetsService call (history)
    token,        \* IGDBService.token
    tokenExpiry,  \* IGDBService.tokenExpiry
    now,          \* Date.now(), in ms
    exchanges,    \* POSTs sent to the token endpoint so far
    searches,     \* POSTs sent to the search API so far
    ilast,        \* the last completed IGDBService call (history)
    iprev,        \* the IGDBService call completed before ilast (history)
    store,        \* CacheService.cache: key -> entry
    fetches,      \* invocations of a fetcher passed to getOrFetch so far
    clast,        \* the last completed CacheService call (history)
    written,      \* key -> the last set of the key not removed since (history)
    table,        \* the rows values.get returns for "Jogos!A1:I", cells as characters
    csv,          \* the text exportAsCSV returned, as characters
    stack,        \* the Express app's layers, in the order they were registered
    pc,           \* where the code that builds the app stands
    initState,    \* how far initializeServices got
    hlast,        \* the last HTTP request answered (history)
    formData,     \* the fields of the game form, as typed
    flast,        \* the last run of the client's validation or submit (history)
    deletes,      \* caller -> the SheetsService call it has in flight (history)
    gets,         \* caller -> the getToken it has in flight (history)
    issued,       \* the (token, expiry) pairs stored from token-endpoint responses (history)
    opcall,       \* the core operation under way and the remote call it waits for
    logbook,      \* the entries the services wrote to the logger, oldest first
    lcall,        \* the last service call whose logging is followed (history)
    retry,        \* the apiClient.withRetry call under way (history)
    clientGames,  \* appState.games: the list the client fetched last
    isLoading,    \* appState.isLoading
    skeleton,     \* the skeleton table is shown
    act,          \* the user action under way in the client (history)
    upstream,     \* the query passed to searchGames last and the request body built from it
    appGames,     \* appState.games as the table shows them
    filteredGames, \* appState.filteredGames
    currentFilters, \* appState.currentFilters
    currentPage,  \* appState.currentPage
    sortColumn,   \* appState.sortColumn
    sortAsc       \* appState.sortAsc

sheetVars == <<sheet, last>>
tokenVars == <<token, tokenExpiry, exchanges, searches, ilast, iprev>>
cacheVars == <<store, fetches, clast, written>>
csvVars == <<table, csv>>
httpVars == <<stack, pc, initState, hlast>>
formVars == <<formData, flast>>
raceVars == <<deletes>>
tokRaceVars == <<gets, issued>>
waitVars == <<opcall>>
logVars == <<logbook, lcall>>
retryVars == <<retry>>
clientVars == <<clientGames, isLoading, skeleton, act>>
queryVars == <<upstream>>
pageVars == <<appGames, filteredGames, currentFilters, currentPage, sortColumn, sortAsc>>
extraVars == <<raceVars, tokRaceVars, waitVars, logVars, retryVars, clientVars, queryVars, pageVars>>
notRace == <<tokRaceVars, waitVars, logVars, retryVars, clientVars, queryVars, pageVars>>
notTokRace == <<raceVars, waitVars, logVars, retryVars, clientVars, queryVars, pageVars>>
notWait == <<raceVars, tokRaceVars, logVars, retryVars, clientVars, queryVars, pageVars>>
notLog == <<raceVars, tokRaceVars, waitVars, retryVars, clientVars, queryVars, pageVars>>
notRetry == <<raceVars, tokRaceVars, waitVars, logVars, clientVars, queryVars, pageVars>>
notClient == <<raceVars, tokRaceVars, waitVars, logVars, retryVars, queryVars, pageVars>>
notQuery == <<raceVars, tokRaceVars, waitVars, logVars, retryVars, clientVars, pageVars>>
notPage == <<raceVars, tokRaceVars, waitVars, logVars, retryVars, clientVars, queryVars>>
vars == <<sheet, last, token, tokenExpiry, now, exchanges, searches, ilast, iprev,
          store, fetches, clast, written, table, csv, stack, pc, initState, hlast,
          formData, flast, extraVars>>

----------------------------------------------------------------------------
(* Bounds *)

\* largest number of data rows (sheet rows 2..MaxRows+1) the model writes
MaxRows == 3

\* the clock runs for this many seconds
MaxTicks == 3

\* the token endpoint is called at most this many times
MaxExchanges == 2

\* the search API is called at most this many times
MaxSearches == 1

\* fetchers are invoked at most this many times
MaxFetches == 2

\* the exported sheet was filled with at most this many keystrokes
MaxCsvKeys == 5

\* a text typed in a field of the form has at most this many characters
MaxTyped == 3

----------------------------------------------------------------------------
(* JavaScript values that reach the services *)

Undef == [t |-> "undefined", s |-> "", n |-> 0]
Null == [t |-> "null", s |-> "", n |-> 0]
Str(s) == [t |-> "string", s |-> s, n |-> 0]
Num(n) == [t |-> "number", s |-> "", n |-> n]

\* ToBoolean(v) = false
Falsy(v) ==
    \/ v.t \in {"undefined", "null"}
    \/ v.t = "string" /\ v.s = ""
    \/ v.t = "number" /\ v.n = 0

\* v || d
Or(v, d) == IF Falsy(v) THEN d ELSE v

----------------------------------------------------------------------------
(* The remote table (Google Sheets values API) *)

NumCols == 9
Cols == 1..NumCols
BlankRow == [j \in Cols |-> ""]
HeaderRow == <<"Plataforma", "Nome", "Lancamento", "Genero", "Status",
               "Tempo", "Inicio", "Fim", "Nota">>

IsBlank(row) == \A j \in Cols : row[j] = ""

\* the grid holds infinitely many blank rows below its last row with data;
\* the model stores the rows up to the last one with data
RECURSIVE Normalise(_)
Normalise(g) ==
    IF Len(g) > 0 /\ IsBlank(g[Len(g)])
    THEN Normalise(SubSeq(g, 1, Len(g) - 1))
    ELSE g

\* values.get omits the empty trailing cells of a row
RECURSIVE TrimRow(_)
TrimRow(row) ==
    IF Len(row) > 0 /\ row[Len(row)] = ""
    THEN TrimRow(SubSeq(row, 1, Len(row) - 1))
    ELSE row

\* values.get on "Jogos!A<from>:I": the rows from sheet row `from` down to the
\* last row with data, empty trailing rows and cells omitted
ValuesGet(g, from) ==
    LET n == Normalise(g)
    IN  [i \in 1..(IF Len(n) >= from THEN Len(n) - from + 1 ELSE 0) |->
            TrimRow(n[i + from - 1])]

\* valueInputOption USER_ENTERED, read back as the formatted value: a string
\* is kept as typed (text cells), a number is shown in decimal, null leaves
\* the cell as it is
CellOf(v, old) ==
    IF v.t = "string" THEN v.s
    ELSE IF v.t = "number" THEN ToString(v.n)
    ELSE old

\* values.append on the data range: one row after the last row of the table
ValuesAppend(g, values) ==
    Normalise(Append(g, [j \in Cols |-> CellOf(values[j], "")]))

RowAt(g, r) == IF r <= Len(g) THEN g[r] ELSE BlankRow

\* values.update on "Jogos!A<r>:I<r>"
ValuesUpdate(g, r, values) ==
    LET len == IF r > Len(g) THEN r ELSE Len(g)
    IN  Normalise([i \in 1..len |->
            IF i = r THEN [j \in Cols |-> CellOf(values[j], RowAt(g, r)[j])]
            ELSE RowAt(g, i)])

\* batchUpdate deleteDimension ROWS [startIndex, endIndex), 0-based grid rows
DeleteDimension(g, startIndex, endIndex) ==
    LET keep == {i \in 1..Len(g) : ~(startIndex < i /\ i <= endIndex)}
        below(i) == Cardinality({k \in keep : k <= i})
    IN  Normalise([p \in 1..Cardinality(keep) |->
            g[CHOOSE i \in keep : below(i) = p]])

----------------------------------------------------------------------------
(* SheetsService *)

Fields == {"plataforma", "nome", "dataLancamento", "genero", "status",
           "tempo", "inicio", "fim", "nota"}

\* getAll: values.get on dataRange, row index -> id, cell || ''
CellOr(row, j) == IF j <= Len(row) /\ row[j] # "" THEN row[j] ELSE ""

\* mutant: ids counted from 1, the header row forgotten
GameOfRow_IdFromOne(row, index) ==
    [id |-> index + 1,
     plataforma |-> CellOr(row, 1),
     nome |-> CellOr(row, 2),
     dataLancamento |-> CellOr(row, 3),
     genero |-> CellOr(row, 4),
     status |-> CellOr(row, 5),
     tempo |-> CellOr(row, 6),
     inicio |-> CellOr(row, 7),
     fim |-> CellOr(row, 8),
     nota |-> CellOr(row, 9)]

GameOfRow(row, index) ==
    [id |-> index + 2,
     plataforma |-> CellOr(row, 1),
     nome |-> CellOr(row, 2),
     dataLancamento |-> CellOr(row, 3),
     genero |-> CellOr(row, 4),
     status |-> CellOr(row, 5),
     tempo |-> CellOr(row, 6),
     inicio |-> CellOr(row, 7),
     fim |-> CellOr(row, 8),
     nota |-> CellOr(row, 9)]

GetAllGames(g) ==
    LET rows == ValuesGet(g, 2)
    IN  [i \in 1..Len(rows) |-> GameOfRow(rows[i], i - 1)]

\* the values array add and update send
GameValues(gameData) ==
    <<gameData.plataforma,
      gameData.nome,
      Or(gameData.dataLancamento, Str("")),
      Or(gameData.genero, Str("")),
      Or(gameData.status, Str("Nao iniciado")),
      Or(gameData.tempo, Str("")),
      Or(gameData.inicio, Str("")),
      Or(gameData.fim, Str("")),
      Or(gameData.nota, Str(""))>>

\* mutant: the upper end of the offset check off by one
RowFound_OffByOne(rows, gameId) ==
    LET rowIndex == gameId - 2
    IN  ~(rowIndex < 0 \/ rowIndex > Len(rows))

\* delete: the offset check on the re-read data range
RowFound(rows, gameId) ==
    LET rowIndex == gameId - 2
    IN  ~(rowIndex < 0 \/ rowIndex >= Len(rows))

\* mutant: the data offset used as the grid index, the header row forgotten
DeleteRange_DataOffset(gameId) == [startIndex |-> gameId - 2, endIndex |-> gameId - 1]

\* mutant: the range ends one row too far
DeleteRange_TwoRows(gameId) == [startIndex |-> gameId - 1, endIndex |-> gameId + 1]

\* delete: the deleteDimension range
DeleteRange(gameId) == [startIndex |-> gameId - 1, endIndex |-> gameId]

----------------------------------------------------------------------------
(* IGDBService *)

MsPerSecond == 1000

NaN == [t |-> "NaN", s |-> "", n |-> 0]

\* a > b on JS values: null counts as 0, undefined and NaN compare false
ToNumber(v) == IF v.t = "number" THEN v ELSE IF v.t = "null" THEN Num(0) ELSE NaN
Greater(a, b) ==
    /\ ToNumber(a).t = "number" /\ ToNumber(b).t = "number"
    /\ ToNumber(a).n > ToNumber(b).n

\* mutant: a stored token is reused whatever its expiry
TokenValid_NoExpiry(tok, expiry, t) == ~Falsy(tok)

\* getToken: this.token && this.tokenExpiry > Date.now()
TokenValid(tok, expiry, t) == ~Falsy(tok) /\ Greater(expiry, Num(t))

\* Date.now() + response.data.expires_in * 1000
ExpiryOf(t, expiresIn) ==
    IF expiresIn.t = "number" THEN Num(t + expiresIn.n * MsPerSecond) ELSE NaN

\* what the token endpoint can answer: a failure (network error, non-2xx), or
\* a body whose access_token and expires_in are there or missing
IssuedToken(k) == Str("token" \o ToString(k))
AuthResponses(k) ==
    {[ok |-> FALSE, access_token |-> Undef, expires_in |-> Undef]} \cup
    [ok : {TRUE}, access_token : {IssuedToken(k), Undef}, expires_in : {Num(1), Num(2), Undef}]

\* time a remote call takes
Delays == {0, MsPerSecond}

\* no request went to the token endpoint
NotAsked == "none"

\* mutant: a failed exchange forgets the stored token
ExchangeFailed_DropsToken(tok, expiry) == [token |-> Null, tokenExpiry |-> Null]

\* getToken's catch: the error is logged and rethrown, the fields are not touched
ExchangeFailed(tok, expiry) == [token |-> tok, tokenExpiry |-> expiry]

\* getToken from state (tok, expiry) at time t, the endpoint answering resp
\* after delay: the state it leaves and what it returns
GetTokenResult(tok, expiry, t, resp, delay) ==
    IF TokenValid(tok, expiry, t)
    THEN [token |-> tok, tokenExpiry |-> expiry, now |-> t, exchanged |-> 0,
          answered |-> NotAsked,
          outcome |-> "ok", returned |-> tok, expiresIn |-> Undef]
    ELSE IF resp.ok
    THEN [token |-> resp.access_token,
          tokenExpiry |-> ExpiryOf(t + delay, resp.expires_in),
          now |-> t + delay, exchanged |-> 1, answered |-> "2xx",
          outcome |-> "ok", returned |-> resp.access_token,
          expiresIn |-> resp.expires_in]
    ELSE [token |-> ExchangeFailed(tok, expiry).token,
          tokenExpiry |-> ExchangeFailed(tok, expiry).tokenExpiry,
          now |-> t + delay, exchanged |-> 1, answered |-> "failed",
          outcome |-> "Falha na autenticacao IGDB", returned |-> Undef,
          expiresIn |-> Undef]

\* mutant: only an empty query is refused
QueryRejected_FalsyOnly(query) == Falsy(query)

\* searchGames: !query || typeof query !== 'string'
QueryRejected(query) == Falsy(query) \/ query.t # "string"

\* mutant: the expiry is cleared, the token is kept
Cleared_KeepsToken(tok, expiry) == [token |-> tok, tokenExpiry |-> Null]

\* clearToken
Cleared(tok, expiry) == [token |-> Null, tokenExpiry |-> Null]

\* what the search endpoint can answer: a list of games, a non-2xx status, or
\* nothing within the 10 s timeout
SearchOk == "ok"
SearchErrors == {"Request failed with status code 401", "timeout of 10000ms exceeded"}
SearchAnswers == {SearchOk} \cup SearchErrors

\* mutant: a failed search is sent a second time
SearchFailed_Retries(tok, expiry) ==
    [token |-> tok, tokenExpiry |-> expiry, exchanged |-> 0, searched |-> 1]

\* searchGames' catch: the error is logged and rethrown; the requests it makes
\* and the fields it leaves
SearchFailed(tok, expiry) ==
    [token |-> tok, tokenExpiry |-> expiry, exchanged |-> 0, searched |-> 0]

Queries == {Str(""), Null, Undef, Num(0), Num(5), Str("zelda")}

\* no search request went out
NotSent == [sent |-> FALSE, token |-> Null, tokenExpiry |-> Null, exchanges |-> 0]

\* the search request went out with this token, the fields being these
SentWith(tok, expiry, ex) ==
    [sent |-> TRUE, token |-> tok, tokenExpiry |-> expiry, exchanges |-> ex]

ICall(op, query, outcome, returned, expiresIn, nowAfter, request, answered) ==
    [op |-> op, query |-> query, request |-> request, answered |-> answered,
     tokenBefore |-> token, expiryBefore |-> tokenExpiry, nowBefore |-> now,
     exBefore |-> exchanges, seBefore |-> searches,
     outcome |-> outcome, returned |-> returned, expiresIn |-> expiresIn,
     nowAfter |-> nowAfter]

\* what is kept of the call before the last one
Earlier(call) ==
    [op |-> call.op, tokenBefore |-> call.tokenBefore, outcome |-> call.outcome,
     returned |-> call.returned, expiresIn |-> call.expiresIn,
     nowAfter |-> call.nowAfter]

IGDBInit ==
    /\ token = Null
    /\ tokenExpiry = Null
    /\ now = MsPerSecond
    /\ exchanges = 0
    /\ searches = 0
    /\ ilast = [op |-> "none", query |-> Undef, request |-> NotSent,
                answered |-> NotAsked,
                tokenBefore |-> Null,
                expiryBefore |-> Null, nowBefore |-> MsPerSecond, exBefore |-> 0,
                seBefore |-> 0, outcome |-> "ok", returned |-> Undef,
                expiresIn |-> Undef, nowAfter |-> MsPerSecond]
    /\ iprev = [op |-> "none", tokenBefore |-> Null, outcome |-> "ok",
                returned |-> Undef, expiresIn |-> Undef, nowAfter |-> MsPerSecond]

Tick ==
    /\ now + MsPerSecond <= MaxTicks * MsPerSecond
    /\ now' = now + MsPerSecond
    /\ UNCHANGED <<sheetVars, tokenVars, cacheVars, csvVars, httpVars, formVars, extraVars>>

\* the answers the token endpoint can give to a getToken made now: none is
\* asked for while the stored token is valid
Answers ==
    IF TokenValid(token, tokenExpiry, now)
    THEN {[resp |-> [ok |-> FALSE, access_token |-> Undef, expires_in |-> Undef],
           delay |-> 0]}
    ELSE [resp : AuthResponses(exchanges + 1), delay : Delays]

GetToken ==
    \E a \in Answers :
        LET r == GetTokenResult(token, tokenExpiry, now, a.resp, a.delay)
        IN  /\ exchanges + r.exchanged <= MaxExchanges
            /\ r.now <= MaxTicks * MsPerSecond
            /\ token' = r.token
            /\ tokenExpiry' = r.tokenExpiry
            /\ now' = r.now
            /\ exchanges' = exchanges + r.exchanged
            /\ ilast' = ICall("getToken", Undef, r.outcome, r.returned, r.expiresIn, r.now,
                             NotSent, r.answered)
            /\ iprev' = Earlier(ilast)
            /\ UNCHANGED searches
            /\ UNCHANGED <<sheetVars, cacheVars, csvVars, httpVars, formVars, extraVars>>

\* searchGames as its caller sees it
SearchGamesOp(query) ==
    IF QueryRejected(query)
    THEN /\ ilast' = ICall("searchGames", query, "Query deve ser uma string nao vazia",
                           Undef, Undef, now, NotSent, NotAsked)
         /\ iprev' = Earlier(ilast)
         /\ UNCHANGED <<token, tokenExpiry, now, exchanges, searches>>
    ELSE \E a \in Answers, answer \in SearchAnswers :
         LET r == GetTokenResult(token, tokenExpiry, now, a.resp, a.delay)
             sent == r.outcome = "ok"
             failed == sent /\ answer \in SearchErrors
             f == SearchFailed(r.token, r.tokenExpiry)
         IN  /\ exchanges + r.exchanged <= MaxExchanges
             /\ sent => searches < MaxSearches
             /\ sent \/ answer = SearchOk
             /\ r.now <= MaxTicks * MsPerSecond
             /\ token' = IF failed THEN f.token ELSE r.token
             /\ tokenExpiry' = IF failed THEN f.tokenExpiry ELSE r.tokenExpiry
             /\ now' = r.now
             /\ exchanges' = exchanges + r.exchanged + IF failed THEN f.exchanged ELSE 0
             /\ searches' = IF failed THEN searches + 1 + f.searched
                            ELSE IF sent THEN searches + 1 ELSE searches
             /\ ilast' = ICall("searchGames", query,
                               IF sent THEN answer ELSE r.outcome,
                               Undef, r.expiresIn, r.now,
                               IF sent
                               THEN SentWith(r.token, r.tokenExpiry,
                                             exchanges + r.exchanged)
                               ELSE NotSent,
                               r.answered)
             /\ iprev' = Earlier(ilast)

SearchGames(query) ==
    /\ SearchGamesOp(query)
    /\ UNCHANGED <<sheetVars, cacheVars, csvVars, httpVars, formVars, extraVars>>

ClearToken ==
    /\ token' = Cleared(token, tokenExpiry).token
    /\ tokenExpiry' = Cleared(token, tokenExpiry).tokenExpiry
    /\ ilast' = ICall("clearToken", Undef, "ok", Undef, Undef, now, NotSent, NotAsked)
    /\ iprev' = Earlier(ilast)
    /\ UNCHANGED <<now, exchanges, searches>>
    /\ UNCHANGED <<sheetVars, cacheVars, csvVars, httpVars, formVars, extraVars>>

IGDBNext ==
    \/ Tick
    \/ GetToken
    \/ \E query \in Queries : SearchGames(query)
    \/ ClearToken

----------------------------------------------------------------------------
(* CacheService over node-cache *)

StdTTL == 300

Keys == {"k1", "k2"}

\* no entry under a key
Absent == [v |-> Undef, t |-> -1]

\* mutant: an entry is returned whatever its expiry
NodeGet_NeverExpires(cache, key, time) ==
    IF cache[key] = Absent THEN Undef ELSE cache[key].v

\* node-cache get: the value, or undefined when missing or past its expiry
\* (t = 0 never expires)
NodeGet(cache, key, time) ==
    LET e == cache[key]
    IN  IF e = Absent \/ (e.t # 0 /\ e.t < time) THEN Undef ELSE e.v

\* node-cache drops the entry a get found expired
NodeSweep(cache, key, time) ==
    IF NodeGet(cache, key, time) = Undef /\ cache[key] # Absent /\ cache[key].t # 0
    THEN [cache EXCEPT ![key] = Absent]
    ELSE cache

\* node-cache set: expiry from ttl seconds, from stdTTL when no ttl is given
NodeSet(cache, key, value, ttl, time) ==
    [cache EXCEPT ![key] =
        [v |-> value,
         t |-> IF ttl.t = "number" /\ ttl.n # 0 THEN time + ttl.n * MsPerSecond
               ELSE IF ttl.t = "number" THEN 0
               ELSE time + StdTTL * MsPerSecond]]

\* mutant: removing a key empties the cache
NodeDel_All(cache, keys) == [k \in Keys |-> Absent]

\* node-cache del: the entries under the keys are dropped, a key with no
\* entry is skipped
NodeDel(cache, keys) == [k \in Keys |-> IF k \in keys THEN Absent ELSE cache[k]]

\* node-cache flushAll
NodeFlush(cache) == [k \in Keys |-> Absent]

\* node-cache keys: the keys that have an entry
NodeKeys(cache) == {k \in Keys : cache[k] # Absent}

\* mutant: a failure of the fetcher is cached as null
FetchFailed_CachesNull(cache, key, ttl, time) == NodeSet(cache, key, Null, ttl, time)

\* getOrFetch: await fetcher() throws, this.set is not reached
FetchFailed(cache, key, ttl, time) == cache

\* mutant: a stored value counts only when it is truthy
IsCached_Truthy(value) == ~Falsy(value)

\* get / getOrFetch: value !== undefined
IsCached(value) == value.t # "undefined"

Values == {Str("a"), Num(0)}
TTLs == {Undef, Num(2)}

\* what a fetcher can do: return a value or fail
FetchResults == [ok : {TRUE}, value : Values] \cup {[ok |-> FALSE, value |-> Undef]}

\* no set of the key since it was last removed
NoSet == [set |-> FALSE, v |-> Undef, ttl |-> Undef, at |-> 0]

\* set(key, v, ttl) made at time at
SetAt(v, ttl, at) == [set |-> TRUE, v |-> v, ttl |-> ttl, at |-> at]

NoStore == [k \in Keys |-> Absent]

Removals == {"delete", "deleteMany", "flush"}

\* a getOrFetch whose fetcher failed
FetcherFailed(call) == call.op = "getOrFetch" /\ call.outcome = "fetcher failed"

CCall(op, key, ttl, fetched, outcome, returned, nowAfter) ==
    [op |-> op, key |-> key, ttl |-> ttl, before |-> store[key],
     nowBefore |-> now, fetchesBefore |-> fetches, fetched |-> fetched,
     outcome |-> outcome, returned |-> returned, nowAfter |-> nowAfter,
     removed |-> IF op = "delete" THEN {key} ELSE {},
     storeBefore |-> IF op \in Removals THEN store ELSE NoStore,
     prior |-> IF FetcherFailed(clast) THEN clast.key ELSE "none"]

CacheInit ==
    /\ store = [k \in Keys |-> Absent]
    /\ fetches = 0
    /\ clast = [op |-> "none", key |-> "k1", ttl |-> Undef, before |-> Absent,
                nowBefore |-> MsPerSecond, fetchesBefore |-> 0,
                fetched |-> [ok |-> FALSE, value |-> Undef],
                outcome |-> "ok", returned |-> Undef, nowAfter |-> MsPerSecond,
                removed |-> {}, storeBefore |-> [k \in Keys |-> Absent],
                prior |-> "none"]
    /\ written = [k \in Keys |-> [set |-> FALSE, v |-> Undef, ttl |-> Undef, at |-> 0]]

NoFetch == [ok |-> FALSE, value |-> Undef]

CacheGet(key) ==
    /\ store' = NodeSweep(store, key, now)
    /\ clast' = CCall("get", key, Undef, NoFetch, "ok",
                      IF IsCached(NodeGet(store, key, now))
                      THEN NodeGet(store, key, now) ELSE Undef, now)
    /\ UNCHANGED <<fetches, now, written>>
    /\ UNCHANGED <<sheetVars, tokenVars, csvVars, httpVars, formVars, extraVars>>

CacheSet(key, value, ttl) ==
    /\ store' = NodeSet(store, key, value, ttl, now)
    /\ clast' = CCall("set", key, ttl, NoFetch, "ok", Undef, now)
    /\ written' = [written EXCEPT ![key] = SetAt(value, ttl, now)]
    /\ UNCHANGED <<fetches, now>>
    /\ UNCHANGED <<sheetVars, tokenVars, csvVars, httpVars, formVars, extraVars>>

CacheDelete(key) ==
    /\ store' = NodeDel(store, {key})
    /\ clast' = CCall("delete", key, Undef, NoFetch, "ok", Undef, now)
    /\ written' = [written EXCEPT ![key] = NoSet]
    /\ UNCHANGED <<fetches, now>>
    /\ UNCHANGED <<sheetVars, tokenVars, csvVars, httpVars, formVars, extraVars>>

DeleteMany(keys) ==
    /\ store' = NodeDel(store, keys)
    /\ clast' = [CCall("deleteMany", "k1", Undef, NoFetch, "ok", Undef, now)
                    EXCEPT !.removed = keys]
    /\ written' = [k \in Keys |-> IF k \in keys THEN NoSet ELSE written[k]]
    /\ UNCHANGED <<fetches, now>>
    /\ UNCHANGED <<sheetVars, tokenVars, csvVars, httpVars, formVars, extraVars>>

CacheFlush ==
    /\ store' = NodeFlush(store)
    /\ clast' = CCall("flush", "k1", Undef, NoFetch, "ok", Undef, now)
    /\ written' = [k \in Keys |-> NoSet]
    /\ UNCHANGED <<fetches, now>>
    /\ UNCHANGED <<sheetVars, tokenVars, csvVars, httpVars, formVars, extraVars>>

\* at the end of the run the process sits idle for the default lifetime of
\* an entry
Idle ==
    /\ now = MaxTicks * MsPerSecond
    /\ now' = now + StdTTL * MsPerSecond
    /\ UNCHANGED <<sheetVars, tokenVars, cacheVars, csvVars, httpVars, formVars, extraVars>>

GetOrFetch(key, ttl) ==
    LET cached == NodeGet(store, key, now)
    IN  IF IsCached(cached)
        THEN /\ clast' = CCall("getOrFetch", key, ttl, NoFetch, "ok", cached, now)
             /\ UNCHANGED <<store, fetches, now, written>>
             /\ UNCHANGED <<sheetVars, tokenVars, csvVars, httpVars, formVars, extraVars>>
        ELSE \E f \in FetchResults, delay \in Delays :
             /\ fetches < MaxFetches
             /\ now + delay <= MaxTicks * MsPerSecond
             /\ fetches' = fetches + 1
             /\ now' = now + delay
             /\ store' = IF f.ok
                         THEN NodeSet(NodeSweep(store, key, now), key, f.value, ttl,
                                      now + delay)
                         ELSE FetchFailed(NodeSweep(store, key, now), key, ttl,
                                          now + delay)
             /\ written' = IF f.ok
                           THEN [written EXCEPT ![key] = SetAt(f.value, ttl, now + delay)]
                           ELSE written
             /\ clast' = CCall("getOrFetch", key, ttl, f,
                               IF f.ok THEN "ok" ELSE "fetcher failed",
                               f.value, now + delay)
             /\ UNCHANGED <<sheetVars, tokenVars, csvVars, httpVars, formVars, extraVars>>

CacheNext ==
    \/ Tick
    \/ \E key \in Keys : CacheGet(key)
    \/ \E key \in Keys, value \in Values, ttl \in TTLs : CacheSet(key, value, ttl)
    \/ \E key \in Keys : CacheDelete(key)
    \/ \E keys \in SUBSET Keys : DeleteMany(keys)
    \/ CacheFlush
    \/ Idle
    \/ \E key \in Keys, ttl \in TTLs : GetOrFetch(key, ttl)

----------------------------------------------------------------------------
(* exportAsCSV *)

Comma == ","
Quote == "\""
Newline == "\n"
Chars == {"a", Comma, Quote, Newline}

\* cellStr.includes(',') || cellStr.includes('\n') || cellStr.includes('"')
NeedsQuotes(cell) == \E i \in 1..Len(cell) : cell[i] \in {Comma, Newline, Quote}

\* cellStr.replace(/"/g, '""')
RECURSIVE DoubleQuotes(_)
DoubleQuotes(cell) ==
    IF cell = <<>> THEN <<>>
    ELSE (IF cell[1] = Quote THEN <<Quote, Quote>> ELSE <<cell[1]>>)
         \o DoubleQuotes(Tail(cell))

\* mutant: a cell with a line break is not quoted
EscapeCell_NoNewline(cell) ==
    IF \E i \in 1..Len(cell) : cell[i] \in {Comma, Quote}
    THEN <<Quote>> \o DoubleQuotes(cell) \o <<Quote>>
    ELSE cell

EscapeCell(cell) ==
    IF NeedsQuotes(cell)
    THEN <<Quote>> \o DoubleQuotes(cell) \o <<Quote>>
    ELSE cell

\* Array.prototype.join
RECURSIVE Join(_, _)
Join(parts, sep) ==
    IF parts = <<>> THEN <<>>
    ELSE IF Len(parts) = 1 THEN parts[1]
    ELSE parts[1] \o <<sep>> \o Join(Tail(parts), sep)

ExportCSV(rows) ==
    Join([i \in 1..Len(rows) |->
            Join([j \in 1..Len(rows[i]) |-> EscapeCell(rows[i][j])], Comma)],
         Newline)

\* a sheet is filled by typing characters into a cell, moving to the next
\* cell of the row, or moving to the first cell of the next row
NextCell == "<tab>"
NextRow == "<enter>"
Keystrokes == UNION {[1..k -> Chars \cup {NextCell, NextRow}] : k \in 0..MaxCsvKeys}

RECURSIVE Typed(_, _)
Typed(keys, grid) ==
    IF keys = <<>> THEN grid
    ELSE Typed(Tail(keys),
               IF keys[1] = NextRow THEN Append(grid, <<<<>>>>)
               ELSE IF keys[1] = NextCell
               THEN [grid EXCEPT ![Len(grid)] = Append(@, <<>>)]
               ELSE [grid EXCEPT ![Len(grid)][Len(grid[Len(grid)])] = Append(@, keys[1])])

\* values.get on "Jogos!A1:I": no empty cell at the end of a row, no empty row
\* at the end of the table
RECURSIVE TrimCells(_)
TrimCells(row) ==
    IF row # <<>> /\ row[Len(row)] = <<>>
    THEN TrimCells(SubSeq(row, 1, Len(row) - 1))
    ELSE row

RECURSIVE TrimRows(_)
TrimRows(rows) ==
    IF rows # <<>> /\ rows[Len(rows)] = <<>>
    THEN TrimRows(SubSeq(rows, 1, Len(rows) - 1))
    ELSE rows

CsvValues(keys) ==
    LET grid == Typed(keys, <<<<<<>>>>>>)
    IN  TrimRows([i \in 1..Len(grid) |-> TrimCells(grid[i])])

\* the sheets that hold something (the header row at least)
CsvTables == {CsvValues(keys) : keys \in Keystrokes} \ {<<>>}

NotExported == <<"-">>

\* the sheet holds the header row only and nothing was exported
CsvInit ==
    /\ table = <<<<<<"a">>>>>>
    /\ csv = NotExported

\* the sheet holds any table and nothing was exported
CsvAnyTable ==
    /\ table \in CsvTables
    /\ csv = NotExported

ExportOp ==
    /\ csv' = ExportCSV(table)
    /\ UNCHANGED table

ExportAsCSV ==
    /\ csv = NotExported
    /\ ExportOp
    /\ UNCHANGED <<now, sheetVars, tokenVars, cacheVars, httpVars, formVars, extraVars>>

CsvNext == ExportAsCSV

----------------------------------------------------------------------------
(* Inputs *)

NoGame == [f \in Fields |-> Undef]

GameFull ==
    [plataforma |-> Str("PC"), nome |-> Str("A"),
     dataLancamento |-> Str("2015-05-19"), genero |-> Str("RPG"),
     status |-> Str("Jogando"), tempo |-> Str("10h"),
     inicio |-> Str("2020-01-01"), fim |-> Str(""), nota |-> Num(7)]

\* only the required fields
GameMinimal == [NoGame EXCEPT !.plataforma = Str("PS5"), !.nome = Str("B")]

\* the lowest grade the schema allows
GameZero ==
    [NoGame EXCEPT !.plataforma = Str("PC"), !.nome = Str("C"),
                   !.status = Str("Dropado"), !.nota = Num(0)]

\* TESTING.md: update(2, { nome: 'Updated' }), not a valid record
GamePartial == [NoGame EXCEPT !.nome = Str("Updated")]

Games == {GameFull, GameMinimal, GameZero, GamePartial}

Statuses == {"Nao iniciado", "Jogando", "Pausado", "Concluido", "Dropado"}

\* gameSchema
ValidGame(g) ==
    /\ g.plataforma.t = "string" /\ g.plataforma.s # ""
    /\ g.nome.t = "string" /\ g.nome.s # ""
    /\ \A f \in {"dataLancamento", "genero", "tempo", "inicio", "fim"} :
          g[f].t \in {"string", "undefined"}
    /\ g.status.t = "undefined" \/ (g.status.t = "string" /\ g.status.s \in Statuses)
    /\ \/ g.nota.t \in {"undefined", "null"}
       \/ g.nota.t = "string" /\ g.nota.s = ""
       \/ g.nota.t = "number" /\ g.nota.n >= 0 /\ g.nota.n <= 10

\* ids a caller passes to delete
DeleteIds == 0..(MaxRows + 3)

\* ids the routes pass to update (gameId >= 2), within the rows the model writes
UpdateIds == 2..(MaxRows + 1)

----------------------------------------------------------------------------
(* SheetsService operations, each awaited by its caller before the next *)

Call(op, id, arg, outcome, requests, result) ==
    [op |-> op, id |-> id, arg |-> arg, before |-> sheet,
     outcome |-> outcome, requests |-> requests, result |-> result]

SheetsInit ==
    /\ sheet = <<HeaderRow>>
    /\ last = [op |-> "none", id |-> 0, arg |-> NoGame, before |-> <<HeaderRow>>,
               outcome |-> "ok", requests |-> <<>>, result |-> <<>>]


\* the calls of SheetsService as their callers see them
GetAllOp ==
    /\ last' = Call("getAll", 0, NoGame, "ok", <<"values.get">>, GetAllGames(sheet))
    /\ UNCHANGED sheet

AddOp(gameData) ==
    /\ Len(sheet) <= MaxRows
    /\ sheet' = ValuesAppend(sheet, GameValues(gameData))
    /\ last' = Call("add", 0, gameData, "ok", <<"values.append">>, <<>>)

UpdateOp(gameId, gameData) ==
    /\ sheet' = ValuesUpdate(sheet, gameId, GameValues(gameData))
    /\ last' = Call("update", gameId, gameData, "ok", <<"values.update">>, <<>>)

DeleteOp(gameId) ==
    LET rows == ValuesGet(sheet, 2)
        range == DeleteRange(gameId)
    IN  IF RowFound(rows, gameId)
        THEN /\ sheet' = DeleteDimension(sheet, range.startIndex, range.endIndex)
             /\ last' = Call("delete", gameId, NoGame, "ok",
                             <<"values.get", "spreadsheets.get", "batchUpdate">>, <<>>)
        ELSE /\ last' = Call("delete", gameId, NoGame, "Jogo nao encontrado",
                             <<"values.get">>, <<>>)
             /\ UNCHANGED sheet

GetAll ==
    /\ GetAllOp
    /\ UNCHANGED <<now, tokenVars, cacheVars, csvVars, httpVars, formVars, extraVars>>

Add(gameData) ==
    /\ AddOp(gameData)
    /\ UNCHANGED <<now, tokenVars, cacheVars, csvVars, httpVars, formVars, extraVars>>

Update(gameId, gameData) ==
    /\ UpdateOp(gameId, gameData)
    /\ UNCHANGED <<now, tokenVars, cacheVars, csvVars, httpVars, formVars, extraVars>>

Delete(gameId) ==
    /\ DeleteOp(gameId)
    /\ UNCHANGED <<now, tokenVars, cacheVars, csvVars, httpVars, formVars, extraVars>>

SheetsNext ==
    \/ GetAll
    \/ \E g \in Games : Add(g)
    \/ \E id \in UpdateIds, g \in Games : Update(id, g)
    \/ \E id \in DeleteIds : Delete(id)

----------------------------------------------------------------------------
(* searchGames: the request body sent upstream *)

\* characters a query is typed with
MaxQuery == 4

Backslash == "\\"
Semicolon == ";"
QueryChars == {"a", Quote, Backslash, Semicolon}
QueryTexts == UNION {[1..k -> QueryChars] : k \in 1..MaxQuery}

\* query.replace(/"/g, '\\"'): a backslash in front of every double quote
RECURSIVE EscapeQuotes(_)
EscapeQuotes(query) ==
    IF query = <<>> THEN <<>>
    ELSE (IF query[1] = Quote THEN <<Backslash, Quote>> ELSE <<query[1]>>)
         \o EscapeQuotes(Tail(query))

\* what follows the literal in the template
Clauses == <<Semicolon, " fields name, first_release_date, platforms.name, genres.name",
             Semicolon, " limit 10", Semicolon>>

\* `search "${escaped}"; fields ...; limit 10;`
IgdbQuery(query) == <<"search ", Quote>> \o EscapeQuotes(query) \o <<Quote>> \o Clauses

NothingSent == [query |-> <<>>, text |-> <<>>]

QueryInit == upstream = NothingSent

\* searchGames(query) with a token at hand: the body of the POST
BuildQuery(query) ==
    /\ upstream' = [query |-> query, text |-> IgdbQuery(query)]
    /\ UNCHANGED <<now, sheetVars, tokenVars, cacheVars, csvVars, httpVars, formVars, notQuery>>

QueryNext == \E query \in QueryTexts : BuildQuery(query)

----------------------------------------------------------------------------
(* SheetsService.delete, call by call: each await gives way to other callers *)

Callers == {1, 2, 3}

\* the rows a table holds before overlapping deletes start
StartRow(i) ==
    [j \in Cols |-> IF j = 1 THEN "PC"
                    ELSE IF j = 2 THEN "R" \o ToString(i)
                    ELSE IF j = 5 THEN "Nao iniciado"
                    ELSE ""]
StartTables == {<<HeaderRow>> \o [i \in 1..k |-> StartRow(i)] : k \in 0..MaxRows}

NoDelete ==
    [pc |-> "idle", gameId |-> 0, seen |-> <<>>, at |-> <<>>, after |-> <<>>,
     outcome |-> "none"]

RaceInit == deletes = [c \in Callers |-> NoDelete]

\* the table the overlapping deletes start from
RaceAnyTable ==
    /\ RaceInit
    /\ sheet \in StartTables
    /\ last = [op |-> "none", id |-> 0, arg |-> NoGame, before |-> <<HeaderRow>>,
               outcome |-> "ok", requests |-> <<>>, result |-> <<>>]

\* delete up to its first await: values.get on the data range, then the
\* offset check on the rows it returned
DeleteRead(c, gameId) ==
    /\ deletes[c].pc = "idle"
    /\ deletes' = [deletes EXCEPT ![c] =
          IF RowFound(ValuesGet(sheet, 2), gameId)
          THEN [NoDelete EXCEPT !.pc = "checked", !.gameId = gameId, !.seen = sheet]
          ELSE [NoDelete EXCEPT !.pc = "done", !.gameId = gameId, !.seen = sheet,
                                !.outcome = "Jogo nao encontrado"]]
    /\ UNCHANGED <<now, sheetVars, tokenVars, cacheVars, csvVars, httpVars, formVars, notRace>>

\* spreadsheets.get and the search for the sheet named sheetName
DeleteLookup(c) ==
    /\ deletes[c].pc = "checked"
    /\ deletes' = [deletes EXCEPT ![c].pc = "found"]
    /\ UNCHANGED <<now, sheetVars, tokenVars, cacheVars, csvVars, httpVars, formVars, notRace>>

\* batchUpdate deleteDimension on the range computed from gameId
DeleteApply(c) ==
    LET range == DeleteRange(deletes[c].gameId)
    IN  /\ deletes[c].pc = "found"
        /\ sheet' = DeleteDimension(sheet, range.startIndex, range.endIndex)
        /\ deletes' = [deletes EXCEPT ![c].pc = "done", ![c].at = sheet,
                                      ![c].after = sheet', ![c].outcome = "ok"]
        /\ UNCHANGED <<now, last, tokenVars, cacheVars, csvVars, httpVars, formVars, notRace>>

\* a caller that adds instead: add is one remote call, values.append
RaceAdd(c, gameData) ==
    /\ deletes[c].pc = "idle"
    /\ sheet' = ValuesAppend(sheet, GameValues(gameData))
    /\ deletes' = [deletes EXCEPT ![c] =
          [NoDelete EXCEPT !.pc = "done", !.at = sheet, !.after = sheet',
                           !.outcome = "added"]]
    /\ UNCHANGED <<now, last, tokenVars, cacheVars, csvVars, httpVars, formVars, notRace>>

\* ids the overlapping callers pass to delete
RaceIds == 1..(MaxRows + 1)

RaceNext ==
    \/ \E c \in Callers, gameId \in RaceIds : DeleteRead(c, gameId)
    \/ \E c \in Callers : DeleteLookup(c)
    \/ \E c \in Callers : DeleteApply(c)
    \/ \E c \in Callers : RaceAdd(c, GameMinimal)

----------------------------------------------------------------------------
(* IGDBService.getToken, await by await, with clearToken in between *)

NoGet == [pc |-> "idle", request |-> 0, outcome |-> "none", returned |-> Undef]

TokRaceInit ==
    /\ gets = [c \in Callers |-> NoGet]
    /\ issued = {}

\* getToken up to its await: the stored token when it is valid, the POST to
\* the token endpoint otherwise
GetTokenStart(c) ==
    /\ gets[c].pc # "waiting"
    /\ IF TokenValid(token, tokenExpiry, now)
       THEN /\ gets' = [gets EXCEPT ![c] =
                  [NoGet EXCEPT !.pc = "done", !.outcome = "ok", !.returned = token]]
            /\ UNCHANGED exchanges
       ELSE /\ exchanges < MaxExchanges
            /\ exchanges' = exchanges + 1
            /\ gets' = [gets EXCEPT ![c] =
                  [NoGet EXCEPT !.pc = "waiting", !.request = exchanges + 1]]
    /\ UNCHANGED <<token, tokenExpiry, now, searches, ilast, iprev, issued>>
    /\ UNCHANGED <<sheetVars, cacheVars, csvVars, httpVars, formVars, notTokRace>>

\* getToken from the answer of the token endpoint on: both fields are
\* assigned and the token returned without another await
GetTokenAnswer(c, resp) ==
    LET r == GetTokenResult(Null, Null, now, resp, 0)
    IN  /\ gets[c].pc = "waiting"
        /\ token' = IF resp.ok THEN r.token
                     ELSE ExchangeFailed(token, tokenExpiry).token
        /\ tokenExpiry' = IF resp.ok THEN r.tokenExpiry
                           ELSE ExchangeFailed(token, tokenExpiry).tokenExpiry
        /\ issued' = IF resp.ok THEN issued \cup {<<r.token, r.tokenExpiry>>} ELSE issued
        /\ gets' = [gets EXCEPT ![c].pc = "done", ![c].outcome = r.outcome,
                                ![c].returned = r.returned]
        /\ UNCHANGED <<now, exchanges, searches, ilast, iprev>>
        /\ UNCHANGED <<sheetVars, cacheVars, csvVars, httpVars, formVars, notTokRace>>

\* clearToken, between the steps of the getToken calls in flight
ClearTokenBetween ==
    /\ token' = Cleared(token, tokenExpiry).token
    /\ tokenExpiry' = Cleared(token, tokenExpiry).tokenExpiry
    /\ UNCHANGED <<now, exchanges, searches, ilast, iprev, gets, issued>>
    /\ UNCHANGED <<sheetVars, cacheVars, csvVars, httpVars, formVars, notTokRace>>

TokRaceNext ==
    \/ \E c \in Callers : GetTokenStart(c)
    \/ \E c \in Callers : \E resp \in AuthResponses(gets[c].request) :
          GetTokenAnswer(c, resp)
    \/ ClearTokenBetween
    \/ Tick

----------------------------------------------------------------------------
(* Core operations and the remote calls they await *)

\* how long a wait is followed, in seconds
MaxWait == 12

\* the option `timeout` of the request, in ms; none (0, the HTTP client's
\* default: no timeout) where the code passes none
SearchTimeout == 10000
NoTimeout == 0
TimeoutOf(call) == IF call = "search" THEN SearchTimeout ELSE NoTimeout

\* the remote calls an operation awaits, in order (searchGames asks for a
\* token first when none is valid)
RemoteCalls(op) ==
    CASE op = "getToken" -> {<<"token">>}
      [] op = "searchGames" -> {<<"search">>, <<"token", "search">>}
      [] op = "getAll" -> {<<"values.get">>}
      [] op = "add" -> {<<"values.append">>}
      [] op = "update" -> {<<"values.update">>}
      [] op = "delete" -> {<<"values.get", "spreadsheets.get", "batchUpdate">>}
      [] op = "exportAsCSV" -> {<<"values.get">>}

CoreOps == {"getToken", "searchGames", "getAll", "add", "update", "delete",
            "exportAsCSV"}

NoOp == [op |-> "none", pc |-> "idle", todo |-> <<>>, elapsed |-> 0, sent |-> 0,
         outcome |-> "none"]

WaitInit == opcall = NoOp

\* the operation sends its first remote call and awaits the answer
Begin(op, calls) ==
    /\ opcall.pc # "waiting"
    /\ opcall' = [NoOp EXCEPT !.op = op, !.pc = "waiting", !.todo = calls, !.sent = 1]
    /\ UNCHANGED <<now, sheetVars, tokenVars, cacheVars, csvVars, httpVars, formVars, notWait>>

\* a second passes without an answer; the HTTP client gives up at the timeout
Wait ==
    /\ opcall.pc = "waiting"
    /\ opcall.elapsed < MaxWait
    /\ LET timeout == TimeoutOf(Head(opcall.todo))
       IN  timeout # NoTimeout => (opcall.elapsed + 1) * MsPerSecond <= timeout
    /\ opcall' = [opcall EXCEPT !.elapsed = @ + 1]
    /\ UNCHANGED <<now, sheetVars, tokenVars, cacheVars, csvVars, httpVars, formVars, notWait>>

\* the remote service answers: the next call goes out, or the operation ends
RemoteAnswers(ok) ==
    /\ opcall.pc = "waiting"
    /\ opcall' =
          IF ~ok THEN [opcall EXCEPT !.pc = "done", !.outcome = "failed"]
          ELSE IF Len(opcall.todo) > 1
          THEN [opcall EXCEPT !.todo = Tail(@), !.elapsed = 0, !.sent = @ + 1]
          ELSE [opcall EXCEPT !.pc = "done", !.outcome = "ok"]
    /\ UNCHANGED <<now, sheetVars, tokenVars, cacheVars, csvVars, httpVars, formVars, notWait>>

\* the HTTP client's timeout fires: the await rejects, the catch rethrows
TimesOut ==
    /\ opcall.pc = "waiting"
    /\ TimeoutOf(Head(opcall.todo)) # NoTimeout
    /\ opcall.elapsed * MsPerSecond >= TimeoutOf(Head(opcall.todo))
    /\ opcall' = [opcall EXCEPT !.pc = "done", !.outcome = "timeout"]
    /\ UNCHANGED <<now, sheetVars, tokenVars, cacheVars, csvVars, httpVars, formVars, notWait>>

WaitNext ==
    \/ \E op \in CoreOps : \E calls \in RemoteCalls(op) : Begin(op, calls)
    \/ Wait
    \/ \E ok \in BOOLEAN : RemoteAnswers(ok)
    \/ TimesOut

----------------------------------------------------------------------------
(* What the services log *)

\* entries the log is followed for
MaxLog == 3

\* logger.error(message, {error, id | query}) and logger.info(message, ...)
LogError(op, id, query) == [level |-> "error", op |-> op, id |-> id, query |-> query]
LogInfo(op, id, query) == [level |-> "info", op |-> op, id |-> id, query |-> query]

\* getToken without a valid token: the exchange, then one entry
GetTokenLogs(exchangeOk) ==
    IF exchangeOk THEN <<LogInfo("getToken", Undef, Undef)>>
    ELSE <<LogError("getToken", Undef, Undef)>>

\* searchGames: the validation throws before the try block; from there on
\* every failure passes through the catch, which logs the query
SearchGamesLogs(query, exchange, searchOk) ==
    IF QueryRejected(query) THEN [failed |-> TRUE, entries |-> <<>>]
    ELSE IF exchange = "failed"
    THEN [failed |-> TRUE,
          entries |-> GetTokenLogs(FALSE) \o <<LogError("searchGames", Undef, query)>>]
    ELSE LET tokenLogs == IF exchange = "2xx" THEN GetTokenLogs(TRUE) ELSE <<>>
             sent == tokenLogs \o <<LogInfo("searchGames", Undef, query)>>
         IN  IF searchOk
             THEN [failed |-> FALSE,
                   entries |-> sent \o <<LogInfo("searchGames", Undef, query)>>]
             ELSE [failed |-> TRUE,
                   entries |-> sent \o <<LogError("searchGames", Undef, query)>>]

\* getAll, add, exportAsCSV: one remote call inside try; the catch logs the
\* error message alone
PlainLogs(op, remoteOk) ==
    IF remoteOk THEN [failed |-> FALSE, entries |-> <<LogInfo(op, Undef, Undef)>>]
    ELSE [failed |-> TRUE, entries |-> <<LogError(op, Undef, Undef)>>]

\* update's catch
UpdateFailedLog(gameId) == LogError("update", Num(gameId), Undef)

UpdateLogs(gameId, remoteOk) ==
    IF remoteOk THEN [failed |-> FALSE, entries |-> <<LogInfo("update", Num(gameId), Undef)>>]
    ELSE [failed |-> TRUE, entries |-> <<UpdateFailedLog(gameId)>>]

\* delete: the not-found error is thrown inside try, so it too is logged by
\* the catch with the id
DeleteLogs(gameId, rows, remoteOk) ==
    IF RowFound(rows, gameId) /\ remoteOk
    THEN [failed |-> FALSE, entries |-> <<LogInfo("delete", Num(gameId), Undef)>>]
    ELSE [failed |-> TRUE, entries |-> <<LogError("delete", Num(gameId), Undef)>>]

LogInit ==
    /\ logbook = <<>>
    /\ lcall = [op |-> "none", param |-> Undef, failed |-> FALSE, from |-> 0]

\* a call ran: its entries are in the log, then it returned or threw
Logged(op, param, r) ==
    /\ Len(logbook) + Len(r.entries) <= MaxLog
    /\ logbook' = logbook \o r.entries
    /\ lcall' = [op |-> op, param |-> param, failed |-> r.failed, from |-> Len(logbook)]
    /\ UNCHANGED <<now, sheetVars, tokenVars, cacheVars, csvVars, httpVars, formVars, notLog>>

LogSearchGames(query, exchange, searchOk) ==
    Logged("searchGames", query, SearchGamesLogs(query, exchange, searchOk))

LogGetToken(exchangeOk) ==
    Logged("getToken", Undef,
           [failed |-> ~exchangeOk, entries |-> GetTokenLogs(exchangeOk)])

LogPlain(op, remoteOk) == Logged(op, Undef, PlainLogs(op, remoteOk))

LogUpdate(gameId, remoteOk) == Logged("update", Num(gameId), UpdateLogs(gameId, remoteOk))

LogDelete(gameId, n, remoteOk) ==
    Logged("delete", Num(gameId), DeleteLogs(gameId, [i \in 1..n |-> <<>>], remoteOk))

LogNext ==
    \/ \E query \in Queries, exchange \in {NotAsked, "2xx", "failed"}, ok \in BOOLEAN :
          LogSearchGames(query, exchange, ok)
    \/ \E ok \in BOOLEAN : LogGetToken(ok)
    \/ \E op \in {"getAll", "add", "exportAsCSV"}, ok \in BOOLEAN : LogPlain(op, ok)
    \/ \E gameId \in UpdateIds, ok \in BOOLEAN : LogUpdate(gameId, ok)
    \/ \E gameId \in DeleteIds, n \in 0..MaxRows, ok \in BOOLEAN : LogDelete(gameId, n, ok)

----------------------------------------------------------------------------
(* The HTTP boundary: app.js, routes/games.routes.js and the middleware *)

Digits == {"0", "1", "2", "3", "4", "5", "6", "7", "8", "9"}

DigitValue(c) == CHOOSE n \in 0..9 : ToString(n) = c

\* the digits a text starts with
RECURSIVE LeadingDigits(_)
LeadingDigits(text) ==
    IF text = <<>> \/ text[1] \notin Digits THEN <<>>
    ELSE <<text[1]>> \o LeadingDigits(Tail(text))

RECURSIVE DecimalValue(_)
DecimalValue(digits) ==
    IF digits = <<>> THEN 0
    ELSE DecimalValue(SubSeq(digits, 1, Len(digits) - 1)) * 10
            + DigitValue(digits[Len(digits)])

\* parseInt(text, 10): an optional sign and the digits that follow, whatever
\* comes after them; NaN when there is no digit
ParseInt(text) ==
    LET negative == text # <<>> /\ text[1] = "-"
        digits == LeadingDigits(IF negative THEN Tail(text) ELSE text)
    IN  IF digits = <<>> THEN NaN
        ELSE Num((IF negative THEN -1 ELSE 1) * DecimalValue(digits))

\* isNaN(gameId) || gameId < 2
IdRejected(gameId) == gameId.t = "NaN" \/ gameId.n < 2

\* the :id of a request, as characters
IdParams ==
    {<<"1">>, <<"2">>, <<"3">>, <<"9">>, <<"a">>, <<"3", "a">>,
     <<"2", ".", "5">>, <<"-", "1">>}

\* what the layers before a route have put on req
NoProps == [auth |-> "undefined", sheetsService |-> FALSE, igdbService |-> FALSE]

\* the middleware that put the services on req: those of app.js (after
\* initializeServices succeeded, after it failed) and those of the route
\* tests (auth ready with a store, auth not ready)
Inject(layer, props) ==
    IF layer = "injectReady"
    THEN [auth |-> "ready", sheetsService |-> TRUE, igdbService |-> TRUE]
    ELSE IF layer = "injectFailed" THEN [props EXCEPT !.auth = "not ready"]
    ELSE IF layer = "mockReady"
    THEN [props EXCEPT !.auth = "ready", !.sheetsService = TRUE]
    ELSE IF layer = "mockNotReady" THEN [props EXCEPT !.auth = "not ready"]
    ELSE props

\* the layers app.js registers while the module loads
AppRoutes == <<"search", "games", "health", "static", "errorHandler", "spa">>

\* checkAuth: !req.auth || !req.auth.ready
CheckAuthFails(props) == props.auth # "ready"

\* errors thrown with no statusCode: new Error('Jogo nao encontrado'), a
\* TypeError on a service that is not on req, a rejected search
PlainError == [statusCode |-> Undef]

\* errorHandler: err.statusCode || 500 (Express's own handler answers an error
\* without a status the same way)
ErrorStatus(err) == Or(err.statusCode, Num(500)).n

Respond(status, props) == [status |-> status, op |-> "none", gameId |-> 0, props |-> props]

CallService(op, gameId, status, props) ==
    [status |-> status, op |-> op, gameId |-> gameId, props |-> props]

GamesPaths == {"/games", "/games/:id", "/games/export"}

\* the route of the games router that takes the request: limiter, checkAuth,
\* validateGame on POST and PUT, the id check on PUT and DELETE, the store
GamesRouter(rq, props, limited) ==
    IF limited THEN Respond(429, props)
    ELSE IF CheckAuthFails(props) THEN Respond(503, props)
    ELSE IF rq.method \in {"POST", "PUT"} /\ ~ValidGame(rq.body) THEN Respond(400, props)
    ELSE IF rq.path = "/games/:id" /\ IdRejected(ParseInt(rq.id)) THEN Respond(400, props)
    ELSE IF ~props.sheetsService THEN Respond(ErrorStatus(PlainError), props)
    ELSE IF rq.path = "/games/export" THEN CallService("exportAsCSV", 0, 200, props)
    ELSE IF rq.method = "GET" THEN CallService("getAll", 0, 200, props)
    ELSE IF rq.method = "POST" THEN CallService("add", 0, 201, props)
    ELSE IF rq.method = "PUT" THEN CallService("update", ParseInt(rq.id).n, 200, props)
    ELSE CallService("delete", ParseInt(rq.id).n, 200, props)

\* app.get('/search'): limiter, the name check, req.igdbService.searchGames
SearchRoute(rq, props, limited) ==
    IF limited THEN Respond(429, props)
    ELSE IF rq.name = "" THEN Respond(400, props)
    ELSE IF ~props.igdbService THEN Respond(ErrorStatus(PlainError), props)
    ELSE CallService("searchGames", 0, 200, props)

\* Express runs the layers in the order of their registration until one
\* answers
RECURSIVE Dispatch(_, _, _, _)
Dispatch(layers, rq, props, limited) ==
    IF layers = <<>> THEN Respond(404, props)
    ELSE IF Head(layers) = "search" /\ rq.path = "/search"
    THEN SearchRoute(rq, props, limited)
    ELSE IF Head(layers) = "games" /\ rq.path \in GamesPaths
    THEN GamesRouter(rq, props, limited)
    ELSE Dispatch(Tail(layers), rq, Inject(Head(layers), props), limited)

NoId == <<>>

Req(method, path, id, body, name) ==
    [method |-> method, path |-> path, id |-> id, body |-> body, name |-> name]

\* request bodies: one the schema accepts, one it refuses
Bodies == {GameMinimal, GamePartial}

Requests ==
    {Req("GET", "/games", NoId, NoGame, ""), Req("GET", "/games/export", NoId, NoGame, "")}
    \cup {Req("POST", "/games", NoId, body, "") : body \in Bodies}
    \cup {Req("PUT", "/games/:id", id, body, "") : id \in IdParams, body \in Bodies}
    \cup {Req("DELETE", "/games/:id", id, NoGame, "") : id \in IdParams}
    \cup {Req("GET", "/search", NoId, NoGame, name) : name \in {"", "zelda"}}

HttpInit ==
    /\ stack = <<>>
    /\ pc = "start"
    /\ initState = "not started"
    /\ hlast = [rq |-> Req("GET", "/games", NoId, NoGame, ""), limited |-> FALSE,
                props |-> NoProps, calls |-> <<>>, status |-> 0,
                init |-> "not started"]

\* app.js: initializeServices() runs up to its first await
StartInit ==
    /\ pc = "start"
    /\ pc' = "routes"
    /\ initState' = "awaiting"
    /\ UNCHANGED <<stack, hlast>>
    /\ UNCHANGED <<now, sheetVars, tokenVars, cacheVars, csvVars, formVars, extraVars>>

\* app.js: the rest of the module registers the routes and the error handler
RegisterRoutes ==
    /\ pc = "routes"
    /\ stack' = stack \o AppRoutes
    /\ pc' = "serving"
    /\ UNCHANGED <<initState, hlast>>
    /\ UNCHANGED <<now, sheetVars, tokenVars, cacheVars, csvVars, formVars, extraVars>>

\* initializeServices resumes once the module has run: getClient and the
\* setup of the services (a SheetsService built without arguments, then
\* initialize(auth), as SERVICES.md documents it) succeed or fail, and the
\* middleware of that outcome is registered
FinishInit(ok) ==
    /\ pc = "serving" /\ initState = "awaiting"
    /\ initState' = IF ok THEN "ready" ELSE "failed"
    /\ stack' = Append(stack, IF ok THEN "injectReady" ELSE "injectFailed")
    /\ UNCHANGED <<pc, hlast>>
    /\ UNCHANGED <<now, sheetVars, tokenVars, cacheVars, csvVars, formVars, extraVars>>

\* the app of the route tests: a middleware that sets req.auth, then the
\* games router
MountRouter(layer) ==
    /\ pc = "start"
    /\ stack' = <<layer, "games">>
    /\ pc' = "serving"
    /\ initState' = "router under test"
    /\ UNCHANGED hlast
    /\ UNCHANGED <<now, sheetVars, tokenVars, cacheVars, csvVars, formVars, extraVars>>

Request(rq, limited) ==
    /\ pc = "serving"
    /\ LET a == Dispatch(stack, rq, NoProps, limited)
       IN  /\ CASE a.op = "getAll" ->
                     GetAllOp /\ UNCHANGED <<now, tokenVars, csvVars>>
                [] a.op = "add" ->
                     AddOp(rq.body) /\ UNCHANGED <<now, tokenVars, csvVars>>
                [] a.op = "update" ->
                     /\ a.gameId <= MaxRows + 1
                     /\ UpdateOp(a.gameId, rq.body)
                     /\ UNCHANGED <<now, tokenVars, csvVars>>
                [] a.op = "delete" ->
                     DeleteOp(a.gameId) /\ UNCHANGED <<now, tokenVars, csvVars>>
                [] a.op = "exportAsCSV" ->
                     ExportOp /\ UNCHANGED <<now, sheetVars, tokenVars>>
                [] a.op = "searchGames" ->
                     SearchGamesOp(Str(rq.name)) /\ UNCHANGED <<sheetVars, csvVars>>
                [] OTHER -> UNCHANGED <<now, sheetVars, tokenVars, csvVars>>
           /\ hlast' =
                [rq |-> rq, limited |-> limited, props |-> a.props,
                 calls |-> IF a.op = "none" THEN <<>> ELSE <<a.op>>,
                 status |-> IF \/ a.op = "delete" /\ last'.outcome # "ok"
                               \/ a.op = "searchGames" /\ ilast'.outcome # "ok"
                            THEN ErrorStatus(PlainError)
                            ELSE a.status,
                 init |-> initState]
    /\ UNCHANGED <<stack, pc, initState>>
    /\ UNCHANGED <<cacheVars, formVars, extraVars>>

HTTPNext ==
    \/ StartInit
    \/ RegisterRoutes
    \/ \E ok \in BOOLEAN : FinishInit(ok)
    \/ \E layer \in {"mockReady", "mockNotReady"} : MountRouter(layer)
    \/ \E rq \in Requests, limited \in BOOLEAN : Request(rq, limited)

----------------------------------------------------------------------------
(* apiClient.withRetry (public/app.js) *)

\* RETRY_CONFIG.maxRetries
maxRetries == 3

\* RETRY_CONFIG.baseDelay and RETRY_CONFIG.maxDelay, in ms
baseDelay == 1000
maxDelay == 5000

Min(a, b) == IF a < b THEN a ELSE b

\* the delay after the failed attempt number `attempt`
Backoff(attempt) == Min(baseDelay * 2^(attempt - 1), maxDelay)

\* mutant: the loop never breaks after a failed attempt
LastAttempt_NoBreak(attempt) == FALSE

\* if (attempt === retryConfig.maxRetries) break
LastAttempt(attempt) == attempt = maxRetries

\* what an attempt can throw, and what it can return
AttemptErrors == {"Failed to fetch", "Tempo de requisicao excedido. Tente novamente.",
                  "Erro 500"}
AttemptResults == {"null", "games"}

\* the calls the client wraps in withRetry
RetriedCalls == {"search", "fetchGames", "saveGame", "deleteGame"}

NoRetry ==
    [fn |-> "none", pc |-> "idle", attempt |-> 0, calls |-> 0, errors |-> <<>>,
     waits |-> <<>>, outcome |-> "none", result |-> "none"]

RetryInit == retry = NoRetry

\* withRetry(fn): attempt = 1, fn is called
WithRetry(fn) ==
    /\ retry.pc \in {"idle", "done"}
    /\ retry' = [NoRetry EXCEPT !.fn = fn, !.pc = "calling", !.attempt = 1, !.calls = 1]
    /\ UNCHANGED <<now, sheetVars, tokenVars, cacheVars, csvVars, httpVars, formVars, notRetry>>

\* fn() resolves: withRetry returns its result
AttemptReturns(result) ==
    /\ retry.pc = "calling"
    /\ retry' = [retry EXCEPT !.pc = "done", !.outcome = "ok", !.result = result]
    /\ UNCHANGED <<now, sheetVars, tokenVars, cacheVars, csvVars, httpVars, formVars, notRetry>>

\* fn() rejects: lastError is kept; the loop breaks at the last attempt, and
\* waits for the delay otherwise
AttemptThrows(error) ==
    /\ retry.pc = "calling"
    /\ retry' =
          IF LastAttempt(retry.attempt)
          THEN [retry EXCEPT !.errors = Append(@, error), !.pc = "done",
                             !.outcome = "thrown", !.result = error]
          ELSE [retry EXCEPT !.errors = Append(@, error), !.pc = "waiting",
                             !.waits = Append(@, Backoff(retry.attempt))]
    /\ UNCHANGED <<now, sheetVars, tokenVars, cacheVars, csvVars, httpVars, formVars, notRetry>>

\* the delay is over: attempt++, and fn is called again while
\* attempt <= maxRetries; past that lastError is thrown
DelayOver ==
    /\ retry.pc = "waiting"
    /\ retry' =
          IF retry.attempt + 1 <= maxRetries
          THEN [retry EXCEPT !.attempt = @ + 1, !.calls = @ + 1, !.pc = "calling"]
          ELSE [retry EXCEPT !.attempt = @ + 1, !.pc = "done", !.outcome = "thrown",
                             !.result = retry.errors[Len(retry.errors)]]
    /\ UNCHANGED <<now, sheetVars, tokenVars, cacheVars, csvVars, httpVars, formVars, notRetry>>

\* an attempt ends, one way or the other
AttemptEnds ==
    \/ \E result \in AttemptResults : AttemptReturns(result)
    \/ \E error \in AttemptErrors : AttemptThrows(error)

RetryNext ==
    \/ \E fn \in RetriedCalls : WithRetry(fn)
    \/ AttemptEnds
    \/ DelayOver

----------------------------------------------------------------------------
(* The browser client against the server: save, delete and reload *)

\* user actions followed after the page has loaded
MaxActions == 2

NoAct ==
    [kind |-> "none", pc |-> "idle", n |-> 0, attempt |-> 0, id |-> 0, selected |-> "",
     form |-> NoGame, applied |-> 0, hits |-> {}, outcome |-> "none"]

\* the page as loaded: init() has subscribed and calls fetchGames
ClientInit ==
    /\ clientGames = <<>>
    /\ isLoading = FALSE
    /\ skeleton = FALSE
    /\ act = [NoAct EXCEPT !.kind = "load", !.pc = "reload", !.attempt = 1]

\* the table the server holds when the page loads
ClientAnyTable ==
    /\ ClientInit
    /\ sheet \in StartTables
    /\ last = [op |-> "none", id |-> 0, arg |-> NoGame, before |-> <<HeaderRow>>,
               outcome |-> "ok", requests |-> <<>>, result |-> <<>>]

\* the record of the form, filled from a game of the list (showForm) and
\* submitted as it is
FormOf(game) == [f \in Fields |-> Str(game[f])]

\* the next attempt of withRetry, or its end after the last one
NextAttempt(a) ==
    IF LastAttempt(a.attempt)
    THEN [a EXCEPT !.pc = "done", !.outcome = "failed"]
    ELSE [a EXCEPT !.attempt = @ + 1]

\* one attempt of fetchGames: the skeleton is shown and isLoading set, GET
\* /games is sent, and the answer, when one comes, sets games and clears both
FetchAttempt(answered) ==
    /\ act.pc = "reload"
    /\ IF answered
       THEN /\ clientGames' = GetAllGames(sheet)
            /\ isLoading' = FALSE
            /\ skeleton' = FALSE
            /\ act' = [act EXCEPT !.pc = "done", !.outcome = "ok"]
       ELSE /\ isLoading' = TRUE
            /\ skeleton' = TRUE
            /\ act' = NextAttempt(act)
            /\ UNCHANGED clientGames
    /\ UNCHANGED <<now, sheetVars, tokenVars, cacheVars, csvVars, httpVars, formVars, notClient>>

\* submitForm with no game being edited
UserAdds ==
    /\ act.pc \in {"idle", "done"}
    /\ act.n < MaxActions
    /\ Len(sheet) <= MaxRows
    /\ act' = [NoAct EXCEPT !.kind = "add", !.pc = "request", !.attempt = 1,
                            !.n = act.n + 1]
    /\ UNCHANGED <<clientGames, isLoading, skeleton>>
    /\ UNCHANGED <<now, sheetVars, tokenVars, cacheVars, csvVars, httpVars, formVars, notClient>>

\* the user picks the i-th game of the list: edits it and submits, or
\* deletes it and confirms
UserPicks(kind, i) ==
    /\ act.pc \in {"idle", "done"}
    /\ act.n < MaxActions
    /\ i \in 1..Len(clientGames)
    /\ act' = [NoAct EXCEPT !.kind = kind, !.pc = "request", !.attempt = 1,
                            !.n = act.n + 1,
                            !.id = clientGames[i].id, !.selected = clientGames[i].nome,
                            !.form = IF kind = "update" THEN FormOf(clientGames[i])
                                     ELSE NoGame]
    /\ UNCHANGED <<clientGames, isLoading, skeleton>>
    /\ UNCHANGED <<now, sheetVars, tokenVars, cacheVars, csvVars, httpVars, formVars, notClient>>

\* what the server does with the request of the action, and whether it
\* answers 2xx
Served(a, g) ==
    CASE a.kind = "add" ->
            [sheet |-> ValuesAppend(g, GameValues(GameMinimal)), ok |-> TRUE, hit |-> TRUE]
      [] a.kind = "update" ->
            [sheet |-> ValuesUpdate(g, a.id, GameValues(a.form)), ok |-> TRUE, hit |-> TRUE]
      [] a.kind = "delete" ->
            IF RowFound(ValuesGet(g, 2), a.id)
            THEN [sheet |-> DeleteDimension(g, DeleteRange(a.id).startIndex,
                                            DeleteRange(a.id).endIndex),
                  ok |-> TRUE, hit |-> TRUE]
            ELSE [sheet |-> g, ok |-> FALSE, hit |-> FALSE]

\* one attempt of saveGame or deleteGame: the request reaches the server or
\* not, and the answer reaches the client within 15 s or not; on a 2xx answer
\* the client goes on to reload the list
RequestAttempt(reached, answered) ==
    /\ act.pc = "request"
    /\ answered => reached
    /\ LET s == Served(act, sheet)
           counted == IF reached /\ s.hit
                      THEN [act EXCEPT !.applied = @ + 1,
                                       !.hits = IF act.kind = "add" THEN @
                                                ELSE @ \cup {RowAt(sheet, act.id)[2]}]
                      ELSE act
       IN  /\ sheet' = IF reached THEN s.sheet ELSE sheet
           /\ act' = IF reached /\ answered /\ s.ok
                     THEN [counted EXCEPT !.pc = "reload", !.attempt = 1]
                     ELSE NextAttempt(counted)
    /\ UNCHANGED <<clientGames, isLoading, skeleton, last>>
    /\ UNCHANGED <<now, tokenVars, cacheVars, csvVars, httpVars, formVars, notClient>>

\* someone else deletes a row of the table
OtherDeletes(id) ==
    /\ RowFound(ValuesGet(sheet, 2), id)
    /\ sheet' = DeleteDimension(sheet, DeleteRange(id).startIndex, DeleteRange(id).endIndex)
    /\ UNCHANGED <<clientGames, isLoading, skeleton, act, last>>
    /\ UNCHANGED <<now, tokenVars, cacheVars, csvVars, httpVars, formVars, notClient>>

ClientNext ==
    \/ \E answered \in BOOLEAN : FetchAttempt(answered)
    \/ UserAdds
    \/ \E kind \in {"update", "delete"}, i \in 1..MaxRows : UserPicks(kind, i)
    \/ \E reached, answered \in BOOLEAN : RequestAttempt(reached, answered)
    \/ \E id \in UpdateIds : OtherDeletes(id)

----------------------------------------------------------------------------
(* The browser client: the paged table *)

\* games a list holds
MaxGames == 12

\* appState.rowsPerPage
rowsPerPage == 10

\* Math.ceil(n / d)
Ceil(n, d) == (n + d - 1) \div d

\* a list of games as fetched: row numbers as ids, some being played
GameList(playing, others) ==
    [i \in 1..(playing + others) |->
        [id |-> i + 1, status |-> IF i <= playing THEN "Jogando" ELSE "Concluido"]]

StatusFilters == {"", "Jogando"}
SortColumns == {"inicio", "nome"}

\* the listener's filter, as far as the status filter goes
RECURSIVE FilterBy(_, _)
FilterBy(list, filters) ==
    IF list = <<>> THEN <<>>
    ELSE (IF filters.status = "" \/ list[1].status = filters.status
          THEN <<list[1]>> ELSE <<>>) \o FilterBy(Tail(list), filters)

PageInit ==
    /\ appGames = <<>>
    /\ filteredGames = <<>>
    /\ currentFilters = [search |-> "", status |-> "", platform |-> ""]
    /\ currentPage = 1
    /\ sortColumn = "inicio"
    /\ sortAsc = FALSE

\* handlers.changePage
ChangePage(direction) ==
    LET totalPages == Ceil(Len(filteredGames), rowsPerPage)
        newPage == IF direction = "prev" /\ currentPage > 1 THEN currentPage - 1
                   ELSE IF direction = "next" /\ currentPage < totalPages
                   THEN currentPage + 1
                   ELSE currentPage
    IN  /\ currentPage' = newPage
        /\ UNCHANGED <<appGames, filteredGames, currentFilters, sortColumn, sortAsc>>
        /\ UNCHANGED <<now, sheetVars, tokenVars, cacheVars, csvVars, httpVars, formVars, notPage>>

\* handlers.sortGames
SortGames(column) ==
    /\ sortColumn' = column
    /\ sortAsc' = IF column = sortColumn THEN ~sortAsc ELSE TRUE
    /\ currentPage' = 1
    /\ UNCHANGED <<appGames, filteredGames, currentFilters>>
    /\ UNCHANGED <<now, sheetVars, tokenVars, cacheVars, csvVars, httpVars, formVars, notPage>>

\* handlers.filterGames, and the listener that recomputes filteredGames
FilterGames(status) ==
    /\ currentFilters' = [currentFilters EXCEPT !.status = status]
    /\ filteredGames' = FilterBy(appGames, currentFilters')
    /\ UNCHANGED <<appGames, currentPage, sortColumn, sortAsc>>
    /\ UNCHANGED <<now, sheetVars, tokenVars, cacheVars, csvVars, httpVars, formVars, notPage>>

\* fetchGames stored a new list (at load, after a save, after a delete), and
\* the listener recomputed filteredGames
GamesLoaded(list) ==
    /\ appGames' = list
    /\ filteredGames' = FilterBy(list, currentFilters)
    /\ UNCHANGED <<currentFilters, currentPage, sortColumn, sortAsc>>
    /\ UNCHANGED <<now, sheetVars, tokenVars, cacheVars, csvVars, httpVars, formVars, notPage>>

PageNext ==
    \/ \E direction \in {"prev", "next"} : ChangePage(direction)
    \/ \E column \in SortColumns : SortGames(column)
    \/ \E status \in StatusFilters : FilterGames(status)
    \/ \E playing \in 0..MaxGames : \E others \in 0..(MaxGames - playing) :
          GamesLoaded(GameList(playing, others))

----------------------------------------------------------------------------
(* The browser client: validators and submitForm (public/app.js) *)

Space == " "

\* the characters typed in the playtime field
TimeChars == {"1", "h", "m", Space}

\* String.prototype.trim
RECURSIVE TrimStart(_)
TrimStart(text) ==
    IF text # <<>> /\ text[1] = Space THEN TrimStart(Tail(text)) ELSE text

RECURSIVE TrimEnd(_)
TrimEnd(text) ==
    IF text # <<>> /\ text[Len(text)] = Space
    THEN TrimEnd(SubSeq(text, 1, Len(text) - 1))
    ELSE text

Trim(text) == TrimEnd(TrimStart(text))

\* timeString.replace(/\s+/g, '')
RECURSIVE RemoveSpaces(_)
RemoveSpaces(text) ==
    IF text = <<>> THEN <<>>
    ELSE (IF text[1] = Space THEN <<>> ELSE <<text[1]>>) \o RemoveSpaces(Tail(text))

\* validators.parsePlaytime (the characters typed are in lower case already)
ParsePlaytime(timeString) ==
    IF timeString = <<>> \/ Trim(timeString) = <<>> THEN <<>>
    ELSE RemoveSpaces(timeString)

\* the text left once a leading (\d+h) is taken, the text itself when it
\* does not start with one
SkipHours(text) ==
    LET digits == LeadingDigits(text)
    IN  IF digits # <<>> /\ Len(text) > Len(digits) /\ text[Len(digits) + 1] = "h"
        THEN SubSeq(text, Len(digits) + 2, Len(text))
        ELSE text

\* the text is empty, or digits followed by m and nothing else; with
\* optionalM the m may be missing
MinutesOrEnd(text, optionalM) ==
    LET digits == LeadingDigits(text)
        rest == SubSeq(text, Len(digits) + 1, Len(text))
    IN  IF digits = <<>> THEN text = <<>>
        ELSE (optionalM /\ rest = <<>>) \/ rest = <<"m">>

\* /^(\d+h)?\s*(\d+m?(?![a-z]))?$/i on lower-case text
PlaytimeRegex(text) == MinutesOrEnd(TrimStart(SkipHours(text)), TRUE)

Includes(text, c) == \E i \in 1..Len(text) : text[i] = c

\* validators.playtime
Playtime(timeString) ==
    IF timeString = <<>> \/ Trim(timeString) = <<>> THEN TRUE
    ELSE PlaytimeRegex(timeString)
            /\ (Includes(timeString, "h") \/ Includes(timeString, "m"))

\* the dates new Date(text) can read, among those typed
DateTexts == {"", "2020-01-01", "abc"}
DateParses(text) == text = "2020-01-01"

\* the text of the grade field and the number parseFloat reads in it (texts
\* with no fraction and no exponent)
NotaTexts == {<<>>, <<"0">>, <<"1", "1">>}
ParseFloat(text) == ParseInt(text)

NomeTexts == {<<>>, <<Space>>, <<"A">>}

RECURSIVE TextsUpTo(_)
TextsUpTo(n) ==
    IF n = 0 THEN {<<>>}
    ELSE TextsUpTo(n - 1) \cup
         {Append(text, c) : text \in {t \in TextsUpTo(n - 1) : Len(t) = n - 1},
                            c \in TimeChars}

TempoTexts == TextsUpTo(MaxTyped)

Forms ==
    [nome : NomeTexts, nota : NotaTexts, dataLancamento : DateTexts,
     inicio : DateTexts, fim : DateTexts, tempo : TempoTexts]

ErrNome == "O nome e obrigatorio."
ErrNota == "A nota deve estar entre 0 e 10."
ErrData == "A data de lancamento e invalida."
ErrTempo == "O tempo de jogo deve estar em um formato como 10h, 90m ou 1h 30m."

\* validators.gameData
GameData(data) ==
    (IF Trim(data.nome) = <<>> THEN <<ErrNome>> ELSE <<>>)
    \o (IF ~Falsy(data.nota) /\ (data.nota.n < 0 \/ data.nota.n > 10)
        THEN <<ErrNota>> ELSE <<>>)
    \o (IF data.dataLancamento # "" /\ ~DateParses(data.dataLancamento)
        THEN <<ErrData>> ELSE <<>>)
    \o (IF data.tempo # <<>> /\ ~Playtime(data.tempo) THEN <<ErrTempo>> ELSE <<>>)

\* formData.get('nota') ? parseFloat(formData.get('nota')) : ''
NotaOf(text) == IF text = <<>> THEN Str("") ELSE ParseFloat(text)

\* the object with the fields as typed, the grade as a number
AsTyped(form) == [form EXCEPT !.nota = NotaOf(form.nota)]

\* submitForm: the payload built from the form, strings sanitized (trimmed;
\* no script element is typed)
Payload(form) ==
    [nome |-> Trim(form.nome), nota |-> NotaOf(form.nota),
     dataLancamento |-> form.dataLancamento, inicio |-> form.inicio,
     fim |-> form.fim, tempo |-> Trim(ParsePlaytime(form.tempo))]

NotRun ==
    [op |-> "none", data |-> AsTyped([nome |-> <<>>, nota |-> <<>>,
                                      dataLancamento |-> "", inicio |-> "",
                                      fim |-> "", tempo |-> <<>>]),
     errors |-> <<>>, shown |-> <<>>, saves |-> 0, method |-> "none"]

FormInit ==
    /\ formData = [nome |-> <<>>, nota |-> <<>>, dataLancamento |-> "",
                   inicio |-> "", fim |-> "", tempo |-> <<>>]
    /\ flast = NotRun

\* any form filled in, nothing run yet
FormAny ==
    /\ formData \in Forms
    /\ flast = NotRun

\* validators.gameData applied to the fields as typed
ValidateGameData ==
    /\ flast = NotRun
    /\ flast' = [op |-> "gameData", data |-> AsTyped(formData),
                 errors |-> GameData(AsTyped(formData)),
                 shown |-> <<>>, saves |-> 0, method |-> "none"]
    /\ UNCHANGED formData
    /\ UNCHANGED <<now, sheetVars, tokenVars, cacheVars, csvVars, httpVars, extraVars>>

\* submitForm: the errors are shown and nothing is sent, or the game is
\* saved (a failed request is sent again up to maxRetries times) and the
\* list is fetched again
SubmitForm(editing) ==
    /\ flast = NotRun
    /\ LET payload == Payload(formData)
           errors == GameData(payload)
       IN  IF errors # <<>>
           THEN flast' = [op |-> "submitForm", data |-> payload, errors |-> errors,
                          shown |-> errors, saves |-> 0, method |-> "none"]
           ELSE \E failures \in 0..maxRetries, listed \in BOOLEAN :
                flast' = [op |-> "submitForm", data |-> payload, errors |-> errors,
                          shown |-> IF failures = maxRetries
                                    THEN <<IF editing THEN "Erro ao atualizar jogo"
                                           ELSE "Erro ao adicionar jogo">>
                                    ELSE <<IF editing THEN "Jogo atualizado com sucesso!"
                                           ELSE "Jogo adicionado com sucesso!">>
                                         \o (IF listed THEN <<>>
                                             ELSE <<"Erro ao adicionar jogo">>),
                          saves |-> IF failures = maxRetries THEN maxRetries
                                    ELSE failures + 1,
                          method |-> IF editing THEN "PUT" ELSE "POST"]
    /\ UNCHANGED formData
    /\ UNCHANGED <<now, sheetVars, tokenVars, cacheVars, csvVars, httpVars, extraVars>>

FormNext ==
    \/ ValidateGameData
    \/ \E editing \in BOOLEAN : SubmitForm(editing)

\* the services as constructed, the sheet holding any table
\* the parts of the state the later sections add, before anything ran
ExtraInit ==
    /\ RaceInit /\ TokRaceInit /\ WaitInit /\ LogInit /\ RetryInit /\ ClientInit
    /\ QueryInit /\ PageInit

InitCSV ==
    SheetsInit /\ IGDBInit /\ CacheInit /\ CsvAnyTable /\ HttpInit /\ FormInit /\ ExtraInit

\* the services as constructed, the form holding anything
InitForm ==
    SheetsInit /\ IGDBInit /\ CacheInit /\ CsvInit /\ HttpInit /\ FormAny /\ ExtraInit

Init == SheetsInit /\ IGDBInit /\ CacheInit /\ CsvInit /\ HttpInit /\ FormInit /\ ExtraInit

InitRace ==
    /\ IGDBInit /\ CacheInit /\ CsvInit /\ HttpInit /\ FormInit
    /\ RaceAnyTable /\ TokRaceInit /\ WaitInit /\ LogInit /\ RetryInit /\ ClientInit
    /\ QueryInit /\ PageInit

SpecCSV == InitCSV /\ [][CsvNext]_vars

SpecHTTP == Init /\ [][HTTPNext]_vars

SpecForm == InitForm /\ [][FormNext]_vars

SpecCache == Init /\ [][CacheNext]_vars

SpecIGDB == Init /\ [][IGDBNext]_vars

SpecSheets == Init /\ [][SheetsNext]_vars

SpecRace == InitRace /\ [][RaceNext]_vars

SpecTokRace == Init /\ [][TokRaceNext]_vars

SpecWait == Init /\ [][WaitNext]_vars

SpecLog == Init /\ [][LogNext]_vars

SpecPage == Init /\ [][PageNext]_vars

SpecQuery == Init /\ [][QueryNext]_vars

InitClient ==
    /\ IGDBInit /\ CacheInit /\ CsvInit /\ HttpInit /\ FormInit
    /\ RaceInit /\ TokRaceInit /\ WaitInit /\ LogInit /\ RetryInit
    /\ ClientAnyTable /\ QueryInit /\ PageInit

SpecClient == InitClient /\ [][ClientNext]_vars

\* every attempt ends and every timer fires
SpecRetry ==
    Init /\ [][RetryNext]_vars /\ WF_vars(AttemptEnds) /\ WF_vars(DelayOver)

----------------------------------------------------------------------------
(* Record store: properties *)

FieldCol ==
    [plataforma |-> 1, nome |-> 2, dataLancamento |-> 3, genero |-> 4,
     status |-> 5, tempo |-> 6, inicio |-> 7, fim |-> 8, nota |-> 9]

\* the records before and after the last call, as getAll reports them
GamesBefore == GetAllGames(last.before)
GamesAfter == GetAllGames(sheet)

\* the records left when the one with this id is taken out of the list:
\* smaller ids untouched, greater ids decremented by one
Renumbered(games, id) ==
    [i \in 1..(Len(games) - 1) |->
        IF i + 1 < id THEN games[i] ELSE [games[i + 1] EXCEPT !.id = @ - 1]]

BlankGame(game) == \A f \in Fields : game[f] = ""

RECURSIVE DropTrailingBlank(_)
DropTrailingBlank(games) ==
    IF Len(games) > 0 /\ BlankGame(games[Len(games)])
    THEN DropTrailingBlank(SubSeq(games, 1, Len(games) - 1))
    ELSE games

DeleteInRange == last.op = "delete" /\ 2 <= last.id /\ last.id <= Len(GamesBefore) + 1

\* C1 as stated: delete(id) with 2 <= id <= n+1 leaves exactly the n-1 other
\* records, those after the deleted one renumbered by -1
C1_DeleteLeavesNMinusOne ==
    DeleteInRange =>
        /\ last.outcome = "ok"
        /\ Len(GamesAfter) = Len(GamesBefore) - 1
        /\ GamesAfter = Renumbered(GamesBefore, last.id)

\* C1 amended: delete(id) with 2 <= id <= n+1 removes exactly the row with that
\* id; getAll then reports the n-1 other records, renumbered, less the blank
\* records left at the end of the list (the remote read omits trailing empty
\* rows)
C1_DeleteRemovesRow ==
    DeleteInRange =>
        /\ last.outcome = "ok"
        /\ GamesAfter = DropTrailingBlank(Renumbered(GamesBefore, last.id))
        /\ \A r \in 1..Len(last.before) :
              RowAt(sheet, r) = IF r < last.id THEN last.before[r]
                                ELSE RowAt(last.before, r + 1)

\* rows A,B with ids 2,3: delete(2) leaves one record with id 2 and nome B
C1_Witness ==
    /\ last.op = "delete" /\ last.id = 2 /\ last.outcome = "ok"
    /\ Len(GamesBefore) = 2
    /\ GamesBefore[1].nome = "A" /\ GamesBefore[2].nome = "B"
    /\ Len(GamesAfter) = 1
    /\ GamesAfter[1].id = 2 /\ GamesAfter[1].nome = "B"

\* the text a value shows as once stored
TextOf(v) == IF v.t = "number" THEN ToString(v.n) ELSE v.s

Omitted(v) == v.t \in {"undefined", "null"} \/ (v.t = "string" /\ v.s = "")

\* the row of a record with the documented defaults: status "Nao iniciado",
\* every other omitted optional field ''
ExpectedRow(r) ==
    [j \in Cols |->
        LET f == CHOOSE x \in Fields : FieldCol[x] = j
        IN  IF Omitted(r[f])
            THEN (IF f = "status" THEN "Nao iniciado" ELSE "")
            ELSE TextOf(r[f])]

\* C2: add(r) of a valid record, then getAll: the n records as before, then
\* one record with id n+2 whose 9 fields are those of r with defaults
C2_AddAppendsRecord ==
    (last.op = "add" /\ ValidGame(last.arg)) =>
        /\ Len(GamesAfter) = Len(GamesBefore) + 1
        /\ SubSeq(GamesAfter, 1, Len(GamesBefore)) = GamesBefore
        /\ GamesAfter[Len(GamesAfter)].id = Len(GamesBefore) + 2
        /\ \A f \in Fields :
              GamesAfter[Len(GamesAfter)][f] = ExpectedRow(last.arg)[FieldCol[f]]

\* C3: update(id, r), id >= 2, valid r: row id holds the 9 fields of r with
\* defaults, every other row is as it was, also past the last data row
C3_UpdateOverwritesRow ==
    (last.op = "update" /\ last.id >= 2 /\ ValidGame(last.arg)) =>
        \A r \in 1..(Len(sheet) + Len(last.before) + last.id) :
            RowAt(sheet, r) = IF r = last.id THEN ExpectedRow(last.arg)
                              ELSE RowAt(last.before, r)

\* C4: delete(id) with id-2 outside [0, n) fails as not found after one read
\* of the data range, sends no deletion and leaves the table as it was
C4_DeleteOutOfRange ==
    (last.op = "delete" /\ ~(0 <= last.id - 2 /\ last.id - 2 < Len(GamesBefore))) =>
        /\ last.outcome = "Jogo nao encontrado"
        /\ last.requests = <<"values.get">>
        /\ \A k \in 1..Len(last.requests) : last.requests[k] # "batchUpdate"
        /\ sheet = last.before

\* a delete just past a table that holds records (as a repeated delete of the
\* last id finds it) was refused
C4_Witness ==
    /\ last.op = "delete" /\ last.outcome = "Jogo nao encontrado"
    /\ Len(GamesBefore) >= 1
    /\ last.id = Len(GamesBefore) + 2

\* C5: getAll returns one record per data row in table order; the record of
\* the row at offset i has id i + 2 and each field is the cell of its column,
\* '' where the cell is empty
C5_GetAllMapsRows ==
    last.op = "getAll" =>
        /\ Len(last.result) = Len(last.before) - 1
        /\ \A k \in 1..Len(last.result) :
              /\ last.result[k].id = (k - 1) + 2
              /\ \A f \in Fields : last.result[k][f] = last.before[k + 1][FieldCol[f]]
        /\ \A k, m \in 1..Len(last.result) :
              last.result[k].id = last.result[m].id => k = m

\* a getAll over a table with a blank row between two records
C5_Witness ==
    /\ last.op = "getAll" /\ Len(last.result) = 3
    /\ BlankGame(last.result[2])
    /\ last.result[3].nome = "B" /\ last.result[3].genero = ""

----------------------------------------------------------------------------
(* Search client: properties *)

\* the last call sent this many POSTs to the token endpoint
Exchanged == exchanges - ilast.exBefore

\* the last call sent this many POSTs to the search API
Searched == searches - ilast.seBefore

StoredTokenLive(call) ==
    /\ call.tokenBefore.t = "string" /\ call.tokenBefore.s # ""
    /\ call.expiryBefore.t = "number" /\ call.nowBefore < call.expiryBefore.n

\* the call before the last was a getToken that obtained a token from the
\* endpoint, and the last one is a getToken too
TwoGetTokens ==
    /\ iprev.op = "getToken" /\ iprev.outcome = "ok"
    /\ iprev.expiresIn.t = "number"
    /\ iprev.returned.t = "string" /\ iprev.returned.s # ""
    /\ ilast.op = "getToken"

\* C6: a getToken made while a token is stored and now < tokenExpiry returns
\* that token without an exchange; of two getToken calls in a row, the first
\* one obtaining a token, the second performs no exchange when less than
\* expires_in has elapsed since the first, and one exchange otherwise
C6_TokenReusedUntilExpiry ==
    /\ (ilast.op = "getToken" /\ StoredTokenLive(ilast)) =>
          /\ Exchanged = 0
          /\ ilast.outcome = "ok"
          /\ ilast.returned = ilast.tokenBefore
          /\ token = ilast.tokenBefore /\ tokenExpiry = ilast.expiryBefore
    /\ TwoGetTokens =>
          Exchanged =
             IF ilast.nowBefore - iprev.nowAfter < iprev.expiresIn.n * MsPerSecond
             THEN 0 ELSE 1

\* two getToken calls, the second after the first token's expires_in has
\* elapsed: the second one exchanged again
C6_Witness ==
    /\ TwoGetTokens
    /\ ilast.nowBefore - iprev.nowAfter >= iprev.expiresIn.n * MsPerSecond
    /\ ilast.tokenBefore = iprev.returned
    /\ Exchanged = 1 /\ exchanges = 2

\* C9: searchGames with an empty or non-string query rejects before any
\* network call: no exchange, no search request, token and expiry as before
C9_BadQueryNoNetwork ==
    (ilast.op = "searchGames"
        /\ (ilast.query.t # "string" \/ ilast.query.s = "")) =>
        /\ ilast.outcome = "Query deve ser uma string nao vazia"
        /\ Exchanged = 0
        /\ Searched = 0
        /\ token = ilast.tokenBefore
        /\ tokenExpiry = ilast.expiryBefore

\* a number was passed as the query while no valid token was stored
C9_Witness ==
    /\ ilast.op = "searchGames" /\ ilast.query = Num(5)
    /\ ilast.outcome = "Query deve ser uma string nao vazia"
    /\ ~StoredTokenLive(ilast)

\* C10: clearToken leaves token and expiry absent whatever they were, and the
\* getToken that follows goes to the token endpoint and does not return the
\* token that was stored before the clear
C10_ClearForcesExchange ==
    /\ ilast.op = "clearToken" => (token = Null /\ tokenExpiry = Null)
    /\ (iprev.op = "clearToken" /\ ilast.op = "getToken") =>
          /\ ilast.tokenBefore = Null /\ ilast.expiryBefore = Null
          /\ Exchanged = 1
          /\ iprev.tokenBefore.t = "string" => ilast.returned # iprev.tokenBefore

\* a token was stored, clearToken dropped it, and the next getToken fetched
\* a new one
C10_Witness ==
    /\ iprev.op = "clearToken" /\ iprev.tokenBefore.t = "string"
    /\ ilast.op = "getToken" /\ ilast.outcome = "ok"
    /\ ilast.returned.t = "string"
    /\ Exchanged = 1

\* C11: when the token endpoint fails a getToken's exchange (network error
\* or non-2xx), the call made one exchange, fails with the authentication
\* error and leaves token and expiry as they were before the call
C11_FailedExchangeKeepsToken ==
    (ilast.op = "getToken" /\ ilast.answered = "failed") =>
        /\ Exchanged = 1
        /\ ilast.outcome = "Falha na autenticacao IGDB"
        /\ ilast.returned = Undef
        /\ token = ilast.tokenBefore
        /\ tokenExpiry = ilast.expiryBefore

\* a token was stored and expired, and the exchange for a new one failed
C11_Witness ==
    /\ ilast.op = "getToken" /\ ilast.answered = "failed"
    /\ ilast.tokenBefore.t = "string"
    /\ ilast.expiryBefore.t = "number" /\ ilast.expiryBefore.n <= ilast.nowBefore
    /\ token = ilast.tokenBefore
    /\ Exchanged = 1

\* C12: getToken reports success only with a token: when the endpoint
\* answers 2xx with access_token or expires_in missing, getToken fails with
\* the authentication error and stores nothing, and a searchGames in that
\* case sends no search request
C12_NoSuccessWithoutToken ==
    /\ (ilast.op = "getToken" /\ ilast.outcome = "ok") =>
          ilast.returned.t = "string" /\ ilast.returned.s # ""
    /\ (ilast.answered = "2xx"
           /\ (ilast.expiresIn.t # "number" \/ token.t # "string")) =>
          /\ ilast.outcome = "Falha na autenticacao IGDB"
          /\ Searched = 0
          /\ token = ilast.tokenBefore /\ tokenExpiry = ilast.expiryBefore

\* C13: when the search request of searchGames fails, the call fails with
\* that error after one search request, no token is requested after the
\* failure, and token and expiry stay as they were when the request went
\* out (as they were before the call when a valid token was stored)
C13_FailedSearchNoRetry ==
    (ilast.op = "searchGames" /\ ilast.request.sent
        /\ ilast.outcome # SearchOk) =>
        /\ ilast.outcome \in SearchErrors
        /\ Searched = 1
        /\ exchanges = ilast.request.exchanges
        /\ token = ilast.request.token
        /\ tokenExpiry = ilast.request.tokenExpiry
        /\ StoredTokenLive(ilast) =>
              /\ Exchanged = 0
              /\ token = ilast.tokenBefore /\ tokenExpiry = ilast.expiryBefore

\* a search with a valid stored token was answered 401
C13_Witness ==
    /\ ilast.op = "searchGames" /\ StoredTokenLive(ilast)
    /\ ilast.outcome = "Request failed with status code 401"
    /\ Searched = 1 /\ Exchanged = 0
    /\ token = ilast.tokenBefore

----------------------------------------------------------------------------
(* Cache: properties *)

Fetched == fetches - clast.fetchesBefore

\* C7: getOrFetch with a non-expired value stored under the key does not
\* invoke the fetcher and returns that value; with the key absent it invokes
\* the fetcher once and, when the fetcher returns, stores the result under
\* the key with the ttl (the default when none is given) and returns it
C7_GetOrFetch ==
    clast.op = "getOrFetch" =>
        /\ (clast.before # Absent /\ clast.nowBefore < clast.before.t) =>
              /\ Fetched = 0
              /\ clast.outcome = "ok"
              /\ clast.returned = clast.before.v
              /\ store[clast.key] = clast.before
        /\ clast.before = Absent =>
              /\ Fetched = 1
              /\ clast.fetched.ok =>
                    /\ clast.outcome = "ok"
                    /\ clast.returned = clast.fetched.value
                    /\ store[clast.key].v = clast.fetched.value
                    /\ store[clast.key].t =
                          clast.nowAfter +
                          (IF clast.ttl.t = "number" THEN clast.ttl.n ELSE StdTTL)
                              * MsPerSecond

\* the value 0 was stored and not expired, and getOrFetch returned it
C7_Witness ==
    /\ clast.op = "getOrFetch"
    /\ clast.before # Absent /\ clast.before.v = Num(0)
    /\ clast.nowBefore < clast.before.t
    /\ clast.returned = Num(0)
    /\ Fetched = 0

\* C14: when the fetcher passed to getOrFetch fails, the call fails with it
\* and nothing is stored under the key: a get of the key that follows returns
\* nothing, and a getOrFetch of the key that follows invokes its fetcher
C14_FailedFetchNotCached ==
    /\ FetcherFailed(clast) =>
          /\ Fetched = 1
          /\ clast.returned = Undef
          /\ store[clast.key] = Absent
    /\ (clast.prior = clast.key /\ clast.op = "get") => clast.returned = Undef
    /\ (clast.prior = clast.key /\ clast.op = "getOrFetch") => Fetched = 1

\* a getOrFetch whose fetcher failed, then a getOrFetch of the same key whose
\* fetcher was invoked and returned
C14_Witness ==
    /\ clast.prior = clast.key /\ clast.op = "getOrFetch"
    /\ clast.fetched.ok /\ clast.outcome = "ok"
    /\ Fetched = 1 /\ fetches = 2

\* the lifetime in ms that a set gives its entry
Lifetime(ttl) == (IF ttl.t = "number" THEN ttl.n ELSE StdTTL) * MsPerSecond

C16_RemovalExact ==
    /\ clast.op \in {"delete", "deleteMany"} =>
          /\ clast.outcome = "ok"
          /\ \A k \in clast.removed :
                store[k] = Absent /\ NodeGet(store, k, now) = Undef
          /\ \A k \in Keys \ clast.removed : store[k] = clast.storeBefore[k]
          /\ (\A k \in clast.removed : clast.storeBefore[k] = Absent) =>
                store = clast.storeBefore
    /\ clast.op = "flush" => NodeKeys(store) = {}
    /\ (clast.op = "get" /\ ~written[clast.key].set) => clast.returned = Undef

\* a key with no entry was deleted while the other key had one, which is
\* still there
C16_Witness ==
    /\ clast.op = "delete"
    /\ clast.storeBefore[clast.key] = Absent
    /\ \E k \in Keys \ {clast.key} : store[k] # Absent
    /\ store = clast.storeBefore

----------------------------------------------------------------------------
(* HTTP boundary: properties *)

\* a request was answered
Answered == hlast.status # 0

\* Google auth was ready when the last request came in: initializeServices
\* had succeeded, or the app under test set req.auth.ready
AuthWasReady ==
    \/ hlast.init = "ready"
    \/ hlast.init = "router under test" /\ stack[1] = "mockReady"

\* the text is an integer in decimal notation
IsIntegerText(text) ==
    LET digits == IF text # <<>> /\ text[1] = "-" THEN Tail(text) ELSE text
    IN  digits # <<>> /\ \A i \in 1..Len(digits) : digits[i] \in Digits

\* the :id is not an integer or is < 2
BadId(text) == ~IsIntegerText(text) \/ ParseInt(text).n < 2

BadBody(rq) == rq.method \in {"POST", "PUT"} /\ ~ValidGame(rq.body)

Blocked(status) == hlast.status = status /\ hlast.calls = <<>>

\* C17: a /games request that fails a pre-check reaches no store operation:
\* it is answered 503 while Google auth is not ready, 400 when the body of a
\* POST or PUT fails the schema, 400 when the :id of a PUT or DELETE is not an
\* integer or is < 2 (requests within the rate limit)
C17_PrecheckBlocksStore ==
    (Answered /\ hlast.rq.path \in GamesPaths /\ ~hlast.limited) =>
        /\ ~AuthWasReady => Blocked(503)
        /\ (AuthWasReady /\ BadBody(hlast.rq)) => Blocked(400)
        /\ (AuthWasReady /\ ~BadBody(hlast.rq)
               /\ hlast.rq.path = "/games/:id" /\ BadId(hlast.rq.id)) => Blocked(400)

\* C18: a request that comes in after initializeServices succeeded passes
\* checkAuth and sees req.sheetsService when it goes to /games, and sees
\* req.igdbService when it goes to /search
C18_ServicesInjected ==
    (Answered /\ hlast.init = "ready") =>
        /\ hlast.rq.path \in GamesPaths =>
              ~CheckAuthFails(hlast.props) /\ hlast.props.sheetsService
        /\ hlast.rq.path = "/search" => hlast.props.igdbService

\* C19: DELETE /games/:id that reaches the store with an id >= 2 beyond the
\* last row is answered 404
C19_DeleteMissingIs404 ==
    (Answered /\ hlast.calls = <<"delete">> /\ last.op = "delete"
        /\ last.id >= 2 /\ last.id > Len(GamesBefore) + 1) =>
        hlast.status = 404

----------------------------------------------------------------------------
(* Client validation: properties *)

\* (digits 'h')? whitespace* (digits 'm')?
PlaytimeGrammar(text) == MinutesOrEnd(TrimStart(SkipHours(text)), FALSE)

\* the rules a record violates
ViolatedRules(data) ==
    {rule \in {"nome", "nota", "dataLancamento", "inicio", "fim", "tempo"} :
        \/ rule = "nome" /\ Trim(data.nome) = <<>>
        \/ rule = "nota" /\ data.nota.t = "number"
              /\ (data.nota.n < 0 \/ data.nota.n > 10)
        \/ rule \in {"dataLancamento", "inicio", "fim"}
              /\ data[rule] # "" /\ ~DateParses(data[rule])
        \/ rule = "tempo" /\ Trim(data.tempo) # <<>>
              /\ ~(PlaytimeGrammar(data.tempo)
                    /\ (Includes(data.tempo, "h") \/ Includes(data.tempo, "m")))}

\* C20: validators.gameData returns one error per violated rule (nome not
\* empty; nota in [0, 10] when present; dataLancamento, inicio and fim
\* parseable when not empty; tempo, when not empty, of the form
\* (digits h)? spaces (digits m)? with an h or an m), no error when no rule
\* is violated; submitForm shows every error and sends no save request when
\* there are errors
C20_OneErrorPerRule ==
    /\ flast.op # "none" => Len(flast.errors) = Cardinality(ViolatedRules(flast.data))
    /\ (flast.op = "submitForm" /\ flast.errors # <<>>) =>
          flast.shown = flast.errors /\ flast.saves = 0

----------------------------------------------------------------------------
(* CSV export: properties *)

\* a CSV reader: fields separated by commas, records by line breaks, a field
\* in double quotes holds commas, line breaks and doubled double quotes
RECURSIVE ParseCSV(_, _, _, _, _, _)
ParseCSV(text, i, inQuotes, cell, row, rows) ==
    IF i > Len(text) THEN Append(rows, Append(row, cell))
    ELSE IF inQuotes
    THEN IF text[i] # Quote
         THEN ParseCSV(text, i + 1, TRUE, Append(cell, text[i]), row, rows)
         ELSE IF i < Len(text) /\ text[i + 1] = Quote
         THEN ParseCSV(text, i + 2, TRUE, Append(cell, Quote), row, rows)
         ELSE ParseCSV(text, i + 1, FALSE, cell, row, rows)
    ELSE IF text[i] = Quote THEN ParseCSV(text, i + 1, TRUE, cell, row, rows)
    ELSE IF text[i] = Comma THEN ParseCSV(text, i + 1, FALSE, <<>>, Append(row, cell), rows)
    ELSE IF text[i] = Newline
    THEN ParseCSV(text, i + 1, FALSE, <<>>, <<>>, Append(rows, Append(row, cell)))
    ELSE ParseCSV(text, i + 1, FALSE, Append(cell, text[i]), row, rows)

Parsed == ParseCSV(csv, 1, FALSE, <<>>, <<>>, <<>>)

\* the characters a cell takes in the output under the stated rule
RECURSIVE CountQuotes(_)
CountQuotes(cell) ==
    IF cell = <<>> THEN 0
    ELSE (IF cell[1] = Quote THEN 1 ELSE 0) + CountQuotes(Tail(cell))

CellWidth(cell) ==
    IF \E i \in 1..Len(cell) : cell[i] = Comma \/ cell[i] = Quote \/ cell[i] = Newline
    THEN Len(cell) + CountQuotes(cell) + 2
    ELSE Len(cell)

RECURSIVE RowWidth(_)
RowWidth(row) ==
    IF row = <<>> THEN 0
    ELSE CellWidth(row[1]) + (IF Len(row) > 1 THEN 1 ELSE 0) + RowWidth(Tail(row))

RECURSIVE TableWidth(_)
TableWidth(rows) ==
    IF rows = <<>> THEN 0
    ELSE RowWidth(rows[1]) + (IF Len(rows) > 1 THEN 1 ELSE 0) + TableWidth(Tail(rows))

\* C8: the export is the rows in table order joined with line breaks, the
\* cells of a row joined with commas, a cell verbatim unless it holds a comma,
\* a double quote or a line break, then quoted with its quotes doubled; a CSV
\* reader gets every cell back, one record per row (an empty row reads as one
\* empty field); the cell Game, "Deluxe" comes out as "Game, ""Deluxe"""
C8_ExportRoundTrips ==
    csv # NotExported =>
        /\ Len(csv) = TableWidth(table)
        /\ Len(Parsed) = Len(table)
        /\ \A i \in 1..Len(table) :
              Parsed[i] = IF table[i] = <<>> THEN <<<<>>>> ELSE table[i]
        /\ (Len(table) = 1 /\ Len(table[1]) = 1
               /\ \A k \in 1..Len(table[1][1]) : table[1][1][k] = "a") =>
              csv = table[1][1]
        /\ EscapeCell(<<"G", "a", "m", "e", Comma, " ", Quote, "D", "e", "l", "u", "x", "e", Quote>>)
              = <<Quote, "G", "a", "m", "e", Comma, " ", Quote, Quote,
                  "D", "e", "l", "u", "x", "e", Quote, Quote, Quote>>

\* an export of two rows, the second with a double quote in one cell and a
\* line break in the next
C8_Witness ==
    /\ csv # NotExported
    /\ Len(table) = 2 /\ Len(table[2]) = 2
    /\ table[2][1] = <<Quote>> /\ table[2][2] = <<Newline>>
    /\ Len(Parsed) = 2


----------------------------------------------------------------------------
(* Overlapping deletes: properties *)

\* the table t is the table s less the `gone` grid rows from row id on
RowsGone(t, s, id, gone) ==
    \A r \in 1..(Len(s) + 1) :
        RowAt(t, r) = IF r < id THEN RowAt(s, r) ELSE RowAt(s, r + gone)

\* delete c passed its check
Passed(c) == deletes[c].pc = "done" /\ deletes[c].outcome = "ok"

\* c and d are deletes of the same id that both read the table before either
\* deletion was sent; c's deletion went first and d's right after it
Overlapping(c, d) ==
    /\ c # d /\ Passed(c) /\ Passed(d)
    /\ deletes[c].gameId = deletes[d].gameId
    /\ deletes[c].seen = deletes[d].seen
    /\ deletes[c].at = deletes[c].seen
    /\ deletes[d].at = deletes[c].after

\* the table had shrunk under delete c when its deletion was sent
Shrunk(c) == Passed(c) /\ deletes[c].gameId > Len(deletes[c].at)

\* C21: nothing keeps deletes apart. Of two overlapping delete(id) calls both
\* pass the check and the second removes the row after the one it validated:
\* the rows id and id+1 of the table they read are both gone; a delete whose
\* table shrank below id between its check and its deletion still sends the
\* deletion, on a row outside the data range
C21_OverlappingDeletes ==
    \A c \in Callers :
        /\ Passed(c) =>
              /\ RowFound(ValuesGet(deletes[c].seen, 2), deletes[c].gameId)
              /\ RowsGone(deletes[c].after, deletes[c].at, deletes[c].gameId, 1)
        /\ Shrunk(c) => deletes[c].after = deletes[c].at
        /\ \A d \in Callers :
              Overlapping(c, d) =>
                  /\ RowsGone(deletes[d].after, deletes[c].seen, deletes[c].gameId, 2)
                  /\ deletes[c].gameId + 1 <= Len(deletes[c].seen) =>
                        Len(deletes[d].after) = Len(deletes[c].seen) - 2

\* rows R1,R2,R3: two overlapping delete(2) removed R1 and R2, and a
\* delete(3) that had passed its check on the three rows was sent when only
\* R3 was left
C21_Witness ==
    \E c, d, e \in Callers :
        /\ Overlapping(c, d)
        /\ deletes[c].gameId = 2
        /\ Len(deletes[c].seen) = 4
        /\ deletes[d].after = <<HeaderRow, StartRow(3)>>
        /\ Shrunk(e) /\ deletes[e].gameId = 3 /\ Len(deletes[e].seen) = 4
        /\ sheet = <<HeaderRow, StartRow(3)>>


----------------------------------------------------------------------------
(* Overlapping getToken and clearToken: properties *)

\* the tokens the endpoint issued so far
IssuedTokens == {IssuedToken(k) : k \in 1..exchanges}

\* C22: with getToken and clearToken calls overlapping, token and tokenExpiry
\* are both absent or both from one response of the token endpoint, and every
\* token a getToken returned is one the endpoint issued
C22_PairNeverTorn ==
    /\ \/ token = Null /\ tokenExpiry = Null
       \/ <<token, tokenExpiry>> \in issued
    /\ \A c \in Callers :
          (gets[c].pc = "done" /\ gets[c].outcome = "ok") =>
              gets[c].returned \in IssuedTokens


----------------------------------------------------------------------------
(* Remote waits: properties *)

\* C23: no core operation waits without bound: whenever one awaits a remote
\* call a timeout is set on that call, and a call that timed out ended the
\* operation with no further request
C23_EveryWaitBounded ==
    /\ opcall.pc = "waiting" => TimeoutOf(Head(opcall.todo)) # NoTimeout
    /\ opcall.outcome = "timeout" => opcall.pc = "done"


----------------------------------------------------------------------------
(* Logging: properties *)

\* the entries the last call wrote
Entries == SubSeq(logbook, lcall.from + 1, Len(logbook))

ErrorLogged == \E i \in 1..Len(Entries) : Entries[i].level = "error"

\* C24: a call that failed wrote an error entry before it threw; a failed
\* update or delete wrote one with its id, a failed searchGames, the
\* rejection of an empty or non-string query included, one with its query
C24_FailuresLogged ==
    lcall.failed =>
        /\ ErrorLogged
        /\ lcall.op \in {"update", "delete"} =>
              \E i \in 1..Len(Entries) :
                  Entries[i].level = "error" /\ Entries[i].id = lcall.param
        /\ lcall.op = "searchGames" =>
              \E i \in 1..Len(Entries) :
                  Entries[i].level = "error" /\ Entries[i].query = lcall.param


----------------------------------------------------------------------------
(* withRetry: properties *)

Failed == Len(retry.errors)

\* fn was called at most maxRetries times; a returned result is that of the
\* first attempt that succeeded, which was the last call; after the k-th
\* failed attempt that another follows, the wait was
\* min(baseDelay * 2^(k-1), maxDelay); the last failed attempt's error is
\* thrown with no wait after it
RetryBounded ==
    /\ retry.calls <= maxRetries
    /\ retry.calls = retry.attempt \/ retry.pc = "done"
    /\ retry.outcome = "ok" => retry.calls = Failed + 1 /\ retry.result \in AttemptResults
    /\ Len(retry.waits) = (IF retry.pc = "calling" \/ retry.outcome = "ok"
                           THEN retry.calls - 1
                           ELSE IF retry.pc = "waiting" THEN retry.calls
                           ELSE IF retry.outcome = "thrown" THEN maxRetries - 1
                           ELSE 0)
    /\ \A k \in 1..Len(retry.waits) :
          retry.waits[k] = (IF 1000 * 2^(k - 1) < 5000 THEN 1000 * 2^(k - 1) ELSE 5000)
    /\ retry.outcome = "thrown" =>
          /\ retry.calls = maxRetries /\ Failed = maxRetries
          /\ retry.result = retry.errors[maxRetries]

\* C25: withRetry calls fn at most maxRetries times, returns the first
\* success, backs off min(baseDelay * 2^(k-1), maxDelay) between attempts,
\* throws the last attempt's error without a further wait, and ends when
\* each attempt ends
C25_RetryBoundedAndEnds ==
    /\ []RetryBounded
    /\ (retry.pc = "calling") ~> (retry.pc = "done")

\* two attempts failed with different errors and the third succeeded after
\* waits of 1 s and 2 s
C25_Witness ==
    /\ retry.outcome = "ok" /\ retry.calls = 3
    /\ retry.errors = <<"Failed to fetch", "Erro 500">>
    /\ retry.waits = <<1000, 2000>>


----------------------------------------------------------------------------
(* Client against server: properties *)

\* C26: a user action takes effect on the table at most once: the server
\* applied the request of one submit or one confirmed delete at most once,
\* retries included
C26_AtMostOnce == act.applied <= 1

\* C27: every update or delete the server applied hit the record the user
\* had selected in the client's list
C27_ActsOnSelected ==
    act.kind \in {"update", "delete"} =>
        \A nome \in act.hits : nome = act.selected

\* C29: isLoading is set and the skeleton table shown only while fetchGames
\* is under way: once it has ended, by success or after its last retry, both
\* are off
C29_LoadingOnlyWhileFetching ==
    (isLoading \/ skeleton) => act.pc = "reload"


----------------------------------------------------------------------------
(* Upstream query: properties *)

\* the position of the double quote that ends the literal opened just before
\* position i, read as the upstream language reads it (a backslash takes the
\* character after it into the literal); 0 when the literal never ends
RECURSIVE LiteralEnd(_, _)
LiteralEnd(text, i) ==
    IF i > Len(text) THEN 0
    ELSE IF text[i] = Backslash THEN LiteralEnd(text, i + 2)
    ELSE IF text[i] = Quote THEN i
    ELSE LiteralEnd(text, i + 1)

\* C28: the text sent upstream is `search "<e>"` followed by the fixed
\* clauses, and no character of the query ends the quoted literal early: the
\* literal ends at the quote the template closes it with, backslashes in the
\* query or not
C28_QuoteStaysInside ==
    upstream # NothingSent =>
        /\ SubSeq(upstream.text, 1, 2) = <<"search ", Quote>>
        /\ SubSeq(upstream.text, Len(upstream.text) - Len(Clauses) + 1,
                  Len(upstream.text)) = Clauses
        /\ LiteralEnd(upstream.text, 3) = Len(upstream.text) - Len(Clauses)


----------------------------------------------------------------------------
(* Paged table: properties *)

\* Math.max(1, Math.ceil(|filteredGames| / rowsPerPage)), as the table shows it
TotalPages ==
    IF Ceil(Len(filteredGames), rowsPerPage) > 1
    THEN Ceil(Len(filteredGames), rowsPerPage) ELSE 1

\* C30: 1 <= currentPage <= max(1, ceil(|filteredGames| / rowsPerPage)) in
\* every state, whatever page changes, sorts, filter changes and reloads of
\* the list came before
C30_PageInRange == 1 <= currentPage /\ currentPage <= TotalPages

====
